---- MODULE Spec2Model ----
(***************************************************************************)
(* Verification model of fpgen's inference engine:                         *)
(*   src/fpgen/bayesian_network.py  BayesianNode, BayesianNetwork          *)
(*   src/fpgen/utils.py             build_evidence (feasibility pass)      *)
(*                                                                         *)
(* Conventions.                                                            *)
(*  - A node is identified by its index in nodes_in_sampling_order.        *)
(*  - A value-index token is a sequence of characters (small naturals).    *)
(*  - A probability is an exact rational.  Every CPT row of the networks   *)
(*    below is written with the numerators of its probabilities over the   *)
(*    common denominator Denom, so the joint probability of an assignment  *)
(*    of m nodes is (product of numerators) / Denom^m.  Floating point     *)
(*    rounding is not modelled.                                            *)
(*  - A python dict is a function together with the order of its keys      *)
(*    where the code depends on that order.                                *)
(***************************************************************************)
EXTENDS Integers, Sequences, FiniteSets, TLC

\* Width of the beam (bayesian_network.py:15 sets 1000; scaled down so that
\* the networks below reach it).
BEAM_WIDTH == 3

\* Common denominator of the CPT rows of the networks below: a multiple of
\* 4 (rows are written in quarters) and of every number of possible values
\* (so that the uniform row is exact).
Denom == 4 * 3

\* Largest number of target roots of one targeted generate call.
MaxTargets == 2

T1 == <<1>>
T2 == <<2>>
T3 == <<3>>

----------------------------------------------------------------------------
(* Sequence helpers *)

Range(s) == {s[i] : i \in DOMAIN s}

RECURSIVE SumSeq(_)
SumSeq(s) == IF s = <<>> THEN 0 ELSE Head(s) + SumSeq(Tail(s))

RECURSIVE Concat(_)
Concat(ss) == IF ss = <<>> THEN <<>> ELSE Head(ss) \o Concat(Tail(ss))

RECURSIVE GCD(_, _)
GCD(a, b) == IF b = 0 THEN a ELSE GCD(b, a % b)

RECURSIVE GCDSeq(_)
GCDSeq(s) == IF s = <<>> THEN 0 ELSE GCD(Head(s), GCDSeq(Tail(s)))

\* The subsequence of s whose elements satisfy membership in S, in order.
RECURSIVE Filter(_, _)
Filter(s, S) ==
    IF s = <<>> THEN <<>>
    ELSE IF Head(s) \in S THEN <<Head(s)>> \o Filter(Tail(s), S)
         ELSE Filter(Tail(s), S)

\* Ascending sequence of a finite set of integers.
RECURSIVE SortedSeq(_)
SortedSeq(S) ==
    IF S = {} THEN <<>>
    ELSE LET m == CHOOSE x \in S : \A y \in S : x <= y
         IN  <<m>> \o SortedSeq(S \ {m})

----------------------------------------------------------------------------
(* Networks: what BayesianNetwork.__init__ loads from the network file.    *)

\* A CPT row {T1: w1/4, T2: w2/4}.
Row(w1, w2) == (T1 :> w1 * (Denom \div 4)) @@ (T2 :> w2 * (Denom \div 4))

\* A CPT row {T1: w1/4, T2: w2/4, T3: w3/4}.
Row3(w1, w2, w3) == Row(w1, w2) @@ (T3 :> w3 * (Denom \div 4))

\* A CPT row with the single key t.
Only(t) == (t :> Denom)

Vals2 == <<T1, T2>>

Vals3 == <<T1, T2, T3>>

\* os -> browser -> device chain; browser T2 never occurs with os T1.
NetChain ==
    [ parent_names    |-> << <<>>, <<1>>, <<2>> >>,
      possible_values |-> << Vals2, Vals2, Vals2 >>,
      probabilities   |-> <<
          (<<>> :> Row(2, 2)),
          (<<T1>> :> Only(T1)) @@ (<<T2>> :> Row(1, 3)),
          (<<T1>> :> Row(3, 1)) @@ (<<T2>> :> Only(T2)) >> ]

\* Node 3 has both other nodes as parents; the three tokens T1, T2, T2 of
\* nodes 1, 2, 3 each occur, but no two of them occur together.
NetFull ==
    [ parent_names    |-> << <<>>, <<1>>, <<1, 2>> >>,
      possible_values |-> << Vals2, Vals2, Vals2 >>,
      probabilities   |-> <<
          (<<>> :> Row(2, 2)),
          (<<T1>> :> Only(T1)) @@ (<<T2>> :> Row(2, 2)),
          (<<T1, T1>> :> Only(T1)) @@ (<<T2, T1>> :> Row(1, 3))
              @@ (<<T2, T2>> :> Only(T1)) >> ]

\* Two children of node 1; the CPT of node 2 has no row for parent T2.
NetFork ==
    [ parent_names    |-> << <<>>, <<1>>, <<1>> >>,
      possible_values |-> << Vals2, Vals2, Vals2 >>,
      probabilities   |-> <<
          (<<>> :> Row(1, 3)),
          (<<T1>> :> Row(2, 2)),
          (<<T1>> :> Only(T2)) @@ (<<T2>> :> Row(3, 1)) >> ]

\* Two independent skewed roots and their common child; token T2 of the
\* child occurs only under the least likely pair of parent values.
NetCollider ==
    [ parent_names    |-> << <<>>, <<>>, <<1, 2>> >>,
      possible_values |-> << Vals2, Vals2, Vals2 >>,
      probabilities   |-> <<
          (<<>> :> Row(1, 3)),
          (<<>> :> Row(1, 3)),
          (<<T1, T1>> :> Row(2, 2)) @@ (<<T1, T2>> :> Only(T1))
              @@ (<<T2, T1>> :> Only(T1)) @@ (<<T2, T2>> :> Only(T1)) >> ]

\* An isolated root whose token T2 is a possible value that never occurs,
\* next to a root with a child.
NetIsolated ==
    [ parent_names    |-> << <<>>, <<>>, <<2>> >>,
      possible_values |-> << Vals2, Vals2, Vals2 >>,
      probabilities   |-> <<
          (<<>> :> Row(4, 0)),
          (<<>> :> Row(3, 1)),
          (<<T1>> :> Row(1, 3)) @@ (<<T2>> :> Row(4, 0)) >> ]

\* os -> browser with three tokens each: os T1 and os T2 admit only
\* browser T3, os T3 admits every browser.
NetOsBrowser ==
    [ parent_names    |-> << <<>>, <<1>> >>,
      possible_values |-> << Vals3, Vals3 >>,
      probabilities   |-> <<
          (<<>> :> Row3(1, 1, 2)),
          (<<T1>> :> Only(T3)) @@ (<<T2>> :> Only(T3))
              @@ (<<T3>> :> Row3(2, 1, 1)) >> ]

Networks ==
    {NetChain, NetFull, NetFork, NetCollider, NetIsolated, NetOsBrowser}

----------------------------------------------------------------------------
(* BayesianNode / BayesianNetwork accessors *)

Nodes(net) == DOMAIN net.parent_names

nodes_in_sampling_order(net) == SortedSeq(Nodes(net))

\* BayesianNetwork.get_all_ancestors
RECURSIVE get_all_ancestors(_, _)
get_all_ancestors(net, n) ==
    LET ps == Range(net.parent_names[n])
    IN  ps \cup UNION {get_all_ancestors(net, p) : p \in ps}

\* BayesianNode.get_probabilities_given_known_values: the row reached by
\* descending the nested CPT along the parents' values, {} on a miss.
get_probabilities_given_known_values(net, n, parent_values) ==
    LET ps   == net.parent_names[n]
        path == [i \in DOMAIN ps |-> parent_values[ps[i]]]
    IN  IF path \in DOMAIN net.probabilities[n]
        THEN net.probabilities[n][path]
        ELSE <<>>

\* The (key, value) pairs of a row in iteration order: the order of the
\* node's possible_values.
Items(net, n, row) == Filter(net.possible_values[n], DOMAIN row)

----------------------------------------------------------------------------
(* Evidence: a dict {node: set of allowed tokens}, kept as the sequence of  *)
(* its (key, value) pairs in insertion order.                              *)

EvKeys(ev) == {ev[i][1] : i \in DOMAIN ev}

EvHas(ev, n) == n \in EvKeys(ev)

EvGet(ev, n) == ev[CHOOSE i \in DOMAIN ev : ev[i][1] = n][2]

\* {k: v for k, v in ev.items() if k != n}
EvWithout(ev, n) == Filter(ev, {e \in Range(ev) : e[1] # n})

\* ev[n] = s: a present key keeps its position, a new key goes last.
EvSet(ev, n, s) ==
    IF EvHas(ev, n)
    THEN [i \in DOMAIN ev |-> IF ev[i][1] = n THEN <<n, s>> ELSE ev[i]]
    ELSE Append(ev, <<n, s>>)

----------------------------------------------------------------------------
(* Distributions: a dict {token: probability}; keys in iteration order,    *)
(* the probability of token v is num[v] / den.                             *)

EmptyDist == [keys |-> <<>>, num |-> <<>>, den |-> 1]

IsEmptyDist(d) == d.keys = <<>>

\* The first occurrences of the elements of s, in order.
RECURSIVE Dedupe(_, _)
Dedupe(s, seen) ==
    IF s = <<>> THEN <<>>
    ELSE IF Head(s) \in seen THEN Dedupe(Tail(s), seen)
         ELSE <<Head(s)>> \o Dedupe(Tail(s), seen \cup {Head(s)})

----------------------------------------------------------------------------
(* BayesianNetwork.trace *)

\* Mutant: only the target and its ancestors are relevant.
relevant_nodes_of_target(net, target, ev) ==
    get_all_ancestors(net, target) \cup {target}

\* The relevant nodes: the target, the evidence nodes, and their ancestors.
relevant_nodes(net, target, ev) ==
    get_all_ancestors(net, target) \cup {target}
        \cup UNION {get_all_ancestors(net, e) \cup {e} : e \in EvKeys(ev)}

ordered_nodes(net, target, ev) ==
    Filter(nodes_in_sampling_order(net), relevant_nodes(net, target, ev))

\* The row used for a beam entry: the CPT row of the node given the entry's
\* parent values, or a uniform row over possible_values when it is empty.
cpt_or_uniform(net, n, assignment) ==
    LET cpt == get_probabilities_given_known_values(net, n, assignment)
        pv  == net.possible_values[n]
    IN  IF DOMAIN cpt = {} /\ pv # <<>>
        THEN [v \in Range(pv) |-> Denom \div Len(pv)]
        ELSE cpt

\* Mutant: entries of probability 0 are kept.
expand_entry_keeps_zero(net, n, ev, entry) ==
    LET cpt   == cpt_or_uniform(net, n, entry.a)
        keep  == {v \in DOMAIN cpt : ~EvHas(ev, n) \/ v \in EvGet(ev, n)}
        items == Filter(Items(net, n, cpt), keep)
    IN  [i \in DOMAIN items |->
            [a |-> (n :> items[i]) @@ entry.a, p |-> entry.p * cpt[items[i]]]]

\* The entries one beam entry expands to at node n (lines 257-282).
expand_entry(net, n, ev, entry) ==
    LET cpt   == cpt_or_uniform(net, n, entry.a)
        keep  == {v \in DOMAIN cpt :
                     (~EvHas(ev, n) \/ v \in EvGet(ev, n)) /\ cpt[v] > 0}
        items == Filter(Items(net, n, cpt), keep)
    IN  [i \in DOMAIN items |->
            [a |-> (n :> items[i]) @@ entry.a, p |-> entry.p * cpt[items[i]]]]

new_beam(net, n, ev, beam) ==
    Concat([i \in DOMAIN beam |-> expand_entry(net, n, ev, beam[i])])

\* heapq.nlargest(k, s, key = joint probability): the k largest, largest
\* first, equal keys in their order in s.
Rank(s, i) ==
    Cardinality({j \in DOMAIN s :
                    s[j].p > s[i].p \/ (s[j].p = s[i].p /\ j < i)})

nlargest(k, s) ==
    [r \in 1..k |-> s[CHOOSE i \in DOMAIN s : Rank(s, i) = r - 1]]

\* Mutant: the beam is cut to its first BEAM_WIDTH entries.
prune_keeps_first(nb) ==
    IF Len(nb) > BEAM_WIDTH THEN SubSeq(nb, 1, BEAM_WIDTH) ELSE nb

\* Lines 284-292: the beam after a node, <<>> standing for "return {}".
prune(nb) == IF Len(nb) > BEAM_WIDTH THEN nlargest(BEAM_WIDTH, nb) ELSE nb

\* The loop of lines 249-292 over the nodes ns, started with beam.
\* collapsed is the node at which new_beam was empty (0: none), pruned
\* tells whether some new_beam exceeded BEAM_WIDTH.
RECURSIVE beam_search(_, _, _, _, _)
beam_search(net, ns, ev, beam, pruned) ==
    IF ns = <<>> THEN [beam |-> beam, collapsed |-> 0, pruned |-> pruned]
    ELSE LET nb == new_beam(net, Head(ns), ev, beam)
         IN  IF nb = <<>>
             THEN [beam |-> <<>>, collapsed |-> Head(ns), pruned |-> pruned]
             ELSE beam_search(net, Tail(ns), ev, prune(nb),
                              pruned \/ Len(nb) > BEAM_WIDTH)

InitialBeam == << [a |-> <<>>, p |-> 1] >>

trace_run(net, target, ev) ==
    beam_search(net, ordered_nodes(net, target, ev), ev, InitialBeam, FALSE)

\* Lines 294-305: the target distribution of a final beam.
target_dist(beam, target) ==
    LET keys  == Dedupe([i \in DOMAIN beam |-> beam[i].a[target]], {})
        num   == [v \in Range(keys) |->
                    SumSeq([i \in DOMAIN beam |->
                              IF beam[i].a[target] = v THEN beam[i].p ELSE 0])]
        total == SumSeq([i \in DOMAIN beam |-> beam[i].p])
    IN  IF total > 0 THEN [keys |-> keys, num |-> num, den |-> total]
        ELSE EmptyDist

trace(net, target, ev) ==
    LET run == trace_run(net, target, ev)
    IN  IF run.collapsed # 0 THEN EmptyDist
        ELSE target_dist(run.beam, target)

----------------------------------------------------------------------------
(* BayesianNetwork.sample_value_from_distribution *)

\* The walk of lines 312-316 from position i with the probability
\* accumulated so far; anchor stands for random.random() = anchor / d.den.
\* 0 stands for "the loop ended without returning".
RECURSIVE walk(_, _, _, _)
walk(d, anchor, i, cumulative) ==
    IF i > Len(d.keys) THEN 0
    ELSE IF anchor < cumulative + d.num[d.keys[i]] THEN i
         ELSE walk(d, anchor, i + 1, cumulative + d.num[d.keys[i]])

\* The value returned for a non-empty distribution.
sample_value_from_distribution(d, anchor) ==
    LET i == walk(d, anchor, 1, 0)
    IN  IF i # 0 THEN d.keys[i] ELSE d.keys[1]

\* random.random() is uniform on [0, 1).  Every cumulative probability of d
\* is a multiple of g / d.den, g the greatest common divisor of the
\* numerators, so the anchors k * g / d.den, 0 <= k * g < d.den, fall into
\* the intervals of the walk in proportion to their lengths.
Anchors(d) ==
    LET g == GCDSeq([i \in DOMAIN d.keys |-> d.num[d.keys[i]]] \o <<d.den>>)
    IN  {k * g : k \in 0 .. ((d.den \div g) - 1)}

Samples(d) == {sample_value_from_distribution(d, a) : a \in Anchors(d)}

----------------------------------------------------------------------------
(* Filtering a distribution to the allowed values and renormalising        *)
(* (lines 96-102 and 139-149).                                             *)

\* Mutant: the filtered distribution is not renormalised.
filtered_dist_unnormalised(d, allowed) ==
    LET keys == Filter(d.keys, allowed)
    IN  [keys |-> keys,
         num  |-> [v \in Range(keys) |-> d.num[v]],
         den  |-> d.den]

filtered_dist(d, allowed) ==
    LET keys == Filter(d.keys, allowed)
    IN  [keys |-> keys,
         num  |-> [v \in Range(keys) |-> d.num[v]],
         den  |-> SumSeq([i \in DOMAIN keys |-> d.num[keys[i]]])]

NoMass(f) == f.keys = <<>> \/ f.den <= 0

\* {val: 1 / len(allowed) for val in allowed}; the keys of the set are taken
\* in the order of possible_values.
uniform_dist(net, n, allowed) ==
    [keys |-> Filter(net.possible_values[n], allowed),
     num  |-> [v \in allowed |-> 1],
     den  |-> Cardinality(allowed)]

----------------------------------------------------------------------------
(* BayesianNetwork.generate_consistent_sample *)

\* Mutant: the distribution of an evidence node is not filtered to its
\* allowed values.
sampling_dist_unfiltered(net, n, cur) ==
    IF EvHas(cur, n) THEN trace(net, n, EvWithout(cur, n))
    ELSE trace(net, n, cur)

\* The distribution node n is sampled from, given current_evidence
\* (lines 90-107).
sampling_dist(net, n, cur) ==
    IF EvHas(cur, n)
    THEN LET allowed == EvGet(cur, n)
             f == filtered_dist(trace(net, n, EvWithout(cur, n)), allowed)
         IN  IF NoMass(f) THEN uniform_dist(net, n, allowed) ELSE f
    ELSE trace(net, n, cur)

Failure(e) == [ok |-> FALSE, error |-> e, value |-> <<>>]

Success(v) == [ok |-> TRUE, error |-> "none", value |-> v]

\* Every outcome of the loop of lines 86-111 over the nodes ns: a full
\* result, or StopIteration when sample_value_from_distribution is handed
\* an empty distribution.
RECURSIVE consistent_samples(_, _, _, _)
consistent_samples(net, ns, cur, result) ==
    IF ns = <<>> THEN {Success(result)}
    ELSE LET n == Head(ns)
             d == sampling_dist(net, n, cur)
         IN  IF IsEmptyDist(d) THEN {Failure("StopIteration")}
             ELSE UNION {consistent_samples(net, Tail(ns),
                                            EvSet(cur, n, {v}),
                                            (n :> v) @@ result)
                            : v \in Samples(d)}

generate_consistent_sample(net, ev) ==
    consistent_samples(net, nodes_in_sampling_order(net), ev, <<>>)

----------------------------------------------------------------------------
(* BayesianNetwork.generate_certain_nodes *)

\* The distribution target t is sampled from (lines 132-151); the empty
\* distribution stands for both raises of RestrictiveConstraints.
target_sampling_dist(net, t, ev) ==
    LET d == trace(net, t, ev)
    IN  IF EvHas(ev, t)
        THEN LET f == filtered_dist(d, EvGet(ev, t))
             IN  IF NoMass(f) THEN EmptyDist ELSE f
        ELSE d

\* Every outcome for the set of target roots ts.
generate_certain_nodes(net, ev, ts) ==
    IF \E t \in ts : IsEmptyDist(target_sampling_dist(net, t, ev))
    THEN {Failure("RestrictiveConstraints")}
    ELSE {Success(r) :
            r \in {f \in [ts -> UNION {Range(net.possible_values[t]) : t \in ts}] :
                     \A t \in ts :
                        f[t] \in Samples(target_sampling_dist(net, t, ev))}}

----------------------------------------------------------------------------
(* BayesianNetwork.validate_evidence *)

AllTokens(net) == UNION {Range(net.possible_values[n]) : n \in Nodes(net)}

\* t in s for two python strings.
IsSubstring(t, s) ==
    \E i \in 0 .. (Len(s) - Len(t)) : SubSeq(s, i + 1, i + Len(t)) = t

\* A fixed constraint is handed to trace as the bare string s; "value in s"
\* then holds for every token contained in s.
ContainedIn(net, s) == {t \in AllTokens(net) : IsSubstring(t, s)}

\* fixed_constraints of lines 175-178 for the entry at position i.
fixed_constraints(net, ev, i) ==
    LET others == Filter(ev, {e \in Range(ev) :
                                 e[1] # ev[i][1] /\ Cardinality(e[2]) = 1})
    IN  [j \in DOMAIN others |->
            <<others[j][1],
              ContainedIn(net, CHOOSE v \in others[j][2] : TRUE)>>]

\* dist.get(val, 0)
DistGet(d, v) == IF v \in Range(d.keys) THEN d.num[v] ELSE 0

\* Whether the entry at position i makes validate_evidence raise.
entry_raises(net, ev, i) ==
    LET fixed == fixed_constraints(net, ev, i)
        dist  == trace(net, ev[i][1], fixed)
    IN  /\ fixed # <<>>
        /\ ~IsEmptyDist(dist)
        /\ \A val \in ev[i][2] : DistGet(dist, val) <= 0

\* TRUE when validate_evidence raises RestrictiveConstraints.
validate_evidence(net, ev) ==
    /\ Len(ev) > 1
    /\ \E i \in DOMAIN ev : entry_raises(net, ev, i)

----------------------------------------------------------------------------
(* utils.build_evidence, lines 491-500: the feasibility pass over the      *)
(* compiled evidence.                                                      *)

\* Mutant: relaxation removes the last added key.
build_evidence_pops_last(net, ev, strict) ==
    IF validate_evidence(net, ev)
    THEN IF strict
         THEN [raised |-> TRUE, evidence |-> ev]
         ELSE [raised |-> FALSE, evidence |-> SubSeq(ev, 1, Len(ev) - 1)]
    ELSE [raised |-> FALSE, evidence |-> ev]

\* The evidence left by the loop and whether the call raised.
build_evidence(net, ev, strict) ==
    IF validate_evidence(net, ev)
    THEN IF strict
         THEN [raised |-> TRUE, evidence |-> ev]
         ELSE [raised |-> FALSE, evidence |-> Tail(ev)]
    ELSE [raised |-> FALSE, evidence |-> ev]

----------------------------------------------------------------------------
(* Inputs *)

NonEmptySubsets(S) == SUBSET S \ {{}}

\* All orderings of the elements of a finite set.
RECURSIVE Perms(_)
Perms(S) ==
    IF S = {} THEN {<<>>}
    ELSE UNION {{<<x>> \o p : p \in Perms(S \ {x})} : x \in S}

\* Every compiled evidence map: distinct nodes in any insertion order, each
\* with a non-empty set of its possible values.
EvidenceMaps(net) ==
    UNION {UNION {{[i \in DOMAIN order |-> <<order[i], val[order[i]]>>] :
                      val \in {f \in [ks -> NonEmptySubsets(AllTokens(net))] :
                                 \A k \in ks :
                                    f[k] \subseteq Range(net.possible_values[k])}}
                    : order \in Perms(ks)}
             : ks \in SUBSET Nodes(net)}

TargetSets(net) ==
    {ts \in SUBSET Nodes(net) : ts # {} /\ Cardinality(ts) <= MaxTargets}

----------------------------------------------------------------------------
(* The probability with which generate_consistent_sample returns a value.  *)

\* Rationals <<numerator, denominator>> in lowest terms.
Rat(n, d) == IF n = 0 THEN <<0, 1>> ELSE <<n \div GCD(n, d), d \div GCD(n, d)>>

RAdd(a, b) == Rat(a[1] * b[2] + b[1] * a[2], a[2] * b[2])

RMul(a, b) == Rat(a[1] * b[1], a[2] * b[2])

RECURSIVE RSum(_)
RSum(s) == IF s = <<>> THEN <<0, 1>> ELSE RAdd(Head(s), RSum(Tail(s)))

\* The probability that sample_value_from_distribution(d) returns u.
sample_probability(d, u) ==
    Rat(Cardinality({a \in Anchors(d) :
                        sample_value_from_distribution(d, a) = u}),
        Cardinality(Anchors(d)))

\* The probability that the loop of lines 86-111 over the nodes ns,
\* started with current_evidence cur, completes and gives node t the
\* value v.
RECURSIVE sample_probability_of(_, _, _, _, _)
sample_probability_of(net, ns, cur, t, v) ==
    IF ns = <<>> THEN <<1, 1>>
    ELSE LET n == Head(ns)
             d == sampling_dist(net, n, cur)
         IN  RSum([i \in DOMAIN d.keys |->
                    IF n = t /\ d.keys[i] # v THEN <<0, 1>>
                    ELSE RMul(sample_probability(d, d.keys[i]),
                              sample_probability_of(net, Tail(ns),
                                  EvSet(cur, n, {d.keys[i]}), t, v))])

generate_probability(net, ev, t, v) ==
    sample_probability_of(net, nodes_in_sampling_order(net), ev, t, v)

\* The probability trace gives v: d[v] or 0.
trace_probability(d, v) ==
    IF IsEmptyDist(d) THEN <<0, 1>> ELSE Rat(DistGet(d, v), d.den)

\* Some trace run by the loop of lines 86-111 over ns prunes its beam.
RECURSIVE sampling_prunes(_, _, _)
sampling_prunes(net, ns, cur) ==
    IF ns = <<>> THEN FALSE
    ELSE LET n == Head(ns)
             d == sampling_dist(net, n, cur)
             e == IF EvHas(cur, n) THEN EvWithout(cur, n) ELSE cur
         IN  \/ trace_run(net, n, e).pruned
             \/ \E u \in Range(d.keys) :
                   /\ u \in Samples(d)
                   /\ sampling_prunes(net, Tail(ns), EvSet(cur, n, {u}))

generate_prunes(net, ev) ==
    sampling_prunes(net, nodes_in_sampling_order(net), ev)

----------------------------------------------------------------------------
(* The distribution the network defines, by enumeration of every joint     *)
(* assignment of all nodes.                                                *)

Assignments(net) ==
    {a \in [Nodes(net) -> AllTokens(net)] :
        \A n \in Nodes(net) : a[n] \in Range(net.possible_values[n])}

\* Numerator over Denom of P(n = a[n] | parents of n as in a); a parent path
\* without a row means no information: uniform over the possible values.
NodeWeight(net, n, a) ==
    LET ps   == net.parent_names[n]
        path == [i \in DOMAIN ps |-> a[ps[i]]]
        cpt  == net.probabilities[n]
    IN  IF path \notin DOMAIN cpt
        THEN Denom \div Len(net.possible_values[n])
        ELSE IF a[n] \in DOMAIN cpt[path] THEN cpt[path][a[n]] ELSE 0

RECURSIVE ProductSeq(_)
ProductSeq(s) == IF s = <<>> THEN 1 ELSE Head(s) * ProductSeq(Tail(s))

\* Numerator over Denom^|Nodes| of the joint probability of a.
JointWeight(net, a) ==
    ProductSeq([n \in Nodes(net) |-> NodeWeight(net, n, a)])

\* a gives every evidence node one of its allowed tokens.
Consistent(a, ev) == \A i \in DOMAIN ev : a[ev[i][1]] \in ev[i][2]

\* Some joint assignment of positive probability satisfies the evidence.
Feasible(net, ev) ==
    \E a \in Assignments(net) : Consistent(a, ev) /\ JointWeight(net, a) > 0

\* The sum of the joint weights of a set of assignments.
RECURSIVE SumWeights(_, _)
SumWeights(net, S) ==
    IF S = {} THEN 0
    ELSE LET a == CHOOSE x \in S : TRUE
         IN  JointWeight(net, a) + SumWeights(net, S \ {a})

\* Numerator of P(target = v and the evidence holds).
ExactMass(net, t, ev, v) ==
    SumWeights(net, {a \in Assignments(net) : Consistent(a, ev) /\ a[t] = v})

\* Numerator of P(the evidence holds).
ExactTotal(net, ev) ==
    SumWeights(net, {a \in Assignments(net) : Consistent(a, ev)})

----------------------------------------------------------------------------
(* trace.py: _exact_inference and _beam_search_inference, and              *)
(* BayesianNetwork.get_distribution_for_node.  whitelisted is an evidence  *)
(* map.                                                                    *)

\* Beam width of trace.py (line 33 sets 1000; scaled down like BEAM_WIDTH).
DEFAULT_BEAM_WIDTH == 3

\* _get_ancestors_and_target
get_ancestors_and_target(net, target) ==
    get_all_ancestors(net, target) \cup {target}

\* whitelisted.get(node.name, node.possible_values), in iteration order.
allowed_of(net, n, whitelisted) ==
    IF EvHas(whitelisted, n)
    THEN Filter(net.possible_values[n], EvGet(whitelisted, n))
    ELSE net.possible_values[n]

\* Lines 250-256 of _enumerate_joint_assignments: the CPT row, or a uniform
\* row over the allowed values when the row is empty.
cpt_or_uniform_allowed(net, n, assignment, allowed) ==
    LET cpt == get_probabilities_given_known_values(net, n, assignment)
    IN  IF DOMAIN cpt = {}
        THEN [v \in Range(allowed) |-> Denom \div Len(allowed)]
        ELSE cpt

\* _enumerate_joint_assignments: the complete assignments of positive
\* probability, in the order they are yielded.
RECURSIVE enumerate_joint_assignments(_, _, _, _, _)
enumerate_joint_assignments(net, nodes, whitelisted, assignment, prob) ==
    IF nodes = <<>> THEN << [a |-> assignment, p |-> prob] >>
    ELSE LET n       == Head(nodes)
             allowed == allowed_of(net, n, whitelisted)
             cpt     == cpt_or_uniform_allowed(net, n, assignment, allowed)
             weight(v) == IF v \in DOMAIN cpt THEN prob * cpt[v] ELSE 0
         IN  Concat([i \in DOMAIN allowed |->
                 IF weight(allowed[i]) <= 0 THEN <<>>
                 ELSE enumerate_joint_assignments(net, Tail(nodes),
                          whitelisted, (n :> allowed[i]) @@ assignment,
                          weight(allowed[i]))])

\* The marginal of the target over a list of weighted assignments, or the
\* uniform distribution over the target's allowed values when the weights
\* sum to nothing (lines 211-217 and 326-331).
marginal_or_uniform(net, target, whitelisted, entries) ==
    LET d == target_dist(entries, target)
        allowed == allowed_of(net, target, whitelisted)
    IN  IF entries # <<>> /\ ~IsEmptyDist(d) THEN d
        ELSE [keys |-> allowed,
              num  |-> [v \in Range(allowed) |-> 1],
              den  |-> Len(allowed)]

\* _exact_inference (the test of the configuration space size, which these
\* networks never exceed, left out).
exact_inference(net, target, whitelisted) ==
    marginal_or_uniform(net, target, whitelisted,
        enumerate_joint_assignments(net,
            Filter(nodes_in_sampling_order(net),
                   get_ancestors_and_target(net, target)),
            whitelisted, <<>>, 1))

\* Lines 301-310 of _beam_search_inference for one beam entry: no row is
\* substituted when the CPT has none.
expand_without_fallback(net, n, whitelisted, entry) ==
    LET cond_probs == get_probabilities_given_known_values(net, n, entry.a)
        allowed    == allowed_of(net, n, whitelisted)
        items      == Filter(allowed, {v \in DOMAIN cond_probs :
                                          entry.p * cond_probs[v] > 0})
    IN  [i \in DOMAIN items |->
            [a |-> (n :> items[i]) @@ entry.a,
             p |-> entry.p * cond_probs[items[i]]]]

\* new_beam.sort(key = probability, reverse = True); new_beam[:beam_width]
sort_and_cut(nb) ==
    nlargest(IF Len(nb) > DEFAULT_BEAM_WIDTH THEN DEFAULT_BEAM_WIDTH
             ELSE Len(nb), nb)

\* The loop of lines 297-317: the final beam, <<>> when it failed at a node.
RECURSIVE beam_search_loop(_, _, _, _)
beam_search_loop(net, ns, whitelisted, beam) ==
    IF ns = <<>> THEN beam
    ELSE LET nb == sort_and_cut(Concat([i \in DOMAIN beam |->
                       expand_without_fallback(net, Head(ns), whitelisted,
                                               beam[i])]))
         IN  IF nb = <<>> THEN <<>>
             ELSE beam_search_loop(net, Tail(ns), whitelisted, nb)

\* _beam_search_inference: {} when the beam failed at a node.
beam_search_inference(net, target, whitelisted) ==
    LET beam == beam_search_loop(net,
                    Filter(nodes_in_sampling_order(net),
                           get_ancestors_and_target(net, target)),
                    whitelisted, InitialBeam)
    IN  IF beam = <<>> THEN EmptyDist
        ELSE marginal_or_uniform(net, target, whitelisted, beam)

\* get_distribution_for_node, lines 354-368: the row a node without
\* multi-valued evidence is sampled from.
get_distribution_for_node(net, n, sample) ==
    LET cpt == get_probabilities_given_known_values(net, n, sample)
        pv  == net.possible_values[n]
    IN  IF DOMAIN cpt = {} /\ pv # <<>>
        THEN [v \in Range(pv) |-> Denom \div Len(pv)]
        ELSE cpt

----------------------------------------------------------------------------
(* Queries run side by side on one network.  ancestors_by_name is the      *)
(* network's memo of ancestor sets (a function from nodes to sets of       *)
(* nodes); a query is run in steps, one per trace expansion, sampled node  *)
(* or validated entry.                                                     *)

\* The memo as BayesianNetwork.__init__ leaves it (lines 72-74).
precomputed_ancestors(net) ==
    [n \in Nodes(net) |-> get_all_ancestors(net, n)]

\* get_all_ancestors(n) on the memo: the set returned and the memo after
\* the call, which gains the entries of n and of its ancestors when n has
\* none (lines 206-221).
cached_ancestors(net, memo, n) ==
    IF n \in DOMAIN memo THEN [value |-> memo[n], memo |-> memo]
    ELSE [value |-> get_all_ancestors(net, n),
          memo  |-> [m \in DOMAIN memo \cup {n} \cup get_all_ancestors(net, n)
                       |-> IF m \in DOMAIN memo THEN memo[m]
                           ELSE get_all_ancestors(net, m)]]

\* The memo after get_all_ancestors has been called on each node of ns.
RECURSIVE memo_after(_, _, _)
memo_after(net, memo, ns) ==
    IF ns = <<>> THEN memo
    ELSE memo_after(net, cached_ancestors(net, memo, Head(ns)).memo, Tail(ns))

\* Mutant: the target's memoized set is used without .copy(), so the
\* additions to relevant_nodes land in the memo.
trace_setup_without_copy(net, memo, target, ev) ==
    LET relevant == memo[target] \cup {target}
                      \cup UNION {memo[e] \cup {e} : e \in EvKeys(ev)}
    IN  [relevant |-> relevant,
         ordered  |-> Filter(nodes_in_sampling_order(net), relevant),
         memo     |-> [memo EXCEPT ![target] = relevant]]

\* Mutant: the ancestors of the evidence nodes are not made relevant.
trace_setup_without_evidence_ancestors(net, memo, target, ev) ==
    LET relevant == memo[target] \cup {target} \cup EvKeys(ev)
    IN  [relevant |-> relevant,
         ordered  |-> Filter(nodes_in_sampling_order(net), relevant),
         memo     |-> memo]

\* Lines 229-242 of trace: relevant_nodes, ordered_nodes, and the memo
\* after the calls of get_all_ancestors.
trace_setup(net, memo, target, ev) ==
    LET calls    == <<target>> \o [i \in DOMAIN ev |-> ev[i][1]]
        after    == memo_after(net, memo, calls)
        relevant == after[target] \cup {target}
                      \cup UNION {after[e] \cup {e} : e \in EvKeys(ev)}
    IN  [relevant |-> relevant,
         ordered  |-> Filter(nodes_in_sampling_order(net), relevant),
         memo     |-> after]

\* One iteration of the loop of lines 249-292: new_beam and the beam after
\* it.  An assignment that lacks a parent of the node makes line 269 raise
\* KeyError.
trace_expand(net, n, ev, beam) ==
    IF \E i \in DOMAIN beam :
          ~(Range(net.parent_names[n]) \subseteq DOMAIN beam[i].a)
    THEN [error |-> "KeyError", expanded |-> <<>>, beam |-> beam]
    ELSE CHOOSE r \in {
           [error |-> "none", expanded |-> nb, beam |-> prune(nb)]
           : nb \in {new_beam(net, n, ev, beam)} } : TRUE

\* The loop of lines 249-292 over the nodes ns.
RECURSIVE trace_loop(_, _, _, _)
trace_loop(net, ns, ev, beam) ==
    IF ns = <<>> THEN [error |-> "none", beam |-> beam]
    ELSE CHOOSE r \in {
           IF step.error # "none" THEN [error |-> step.error, beam |-> <<>>]
           ELSE IF step.expanded = <<>>
           THEN [error |-> "none", beam |-> <<>>]
           ELSE trace_loop(net, Tail(ns), ev, step.beam)
           : step \in {trace_expand(net, Head(ns), ev, beam)} } : TRUE

\* trace(target, ev) run on the memo: the distribution or the error, the
\* final beam, and the memo after the call.
trace_from(net, memo, target, ev) ==
    CHOOSE r \in {
      CHOOSE q \in {
        [error |-> run.error,
         beam  |-> run.beam,
         dist  |-> IF run.beam = <<>> THEN EmptyDist
                   ELSE target_dist(run.beam, target),
         memo  |-> s.memo]
        : run \in {trace_loop(net, s.ordered, ev, InitialBeam)} } : TRUE
      : s \in {trace_setup(net, memo, target, ev)} } : TRUE

\* Lines 90-107 of generate_consistent_sample for node n: the distribution
\* the node is sampled from.
sampling_dist_from(net, memo, n, cur) ==
    IF EvHas(cur, n)
    THEN CHOOSE r \in {
           CHOOSE q \in {
             [error |-> t.error, memo |-> t.memo,
              dist  |-> IF NoMass(f) THEN uniform_dist(net, n, EvGet(cur, n))
                        ELSE f]
             : f \in {filtered_dist(t.dist, EvGet(cur, n))} } : TRUE
           : t \in {trace_from(net, memo, n, EvWithout(cur, n))} } : TRUE
    ELSE CHOOSE r \in {
           [error |-> t.error, memo |-> t.memo, dist |-> t.dist]
           : t \in {trace_from(net, memo, n, cur)} } : TRUE

\* Lines 175-186 of validate_evidence for the entry at position i: whether
\* it raises, and the beam of the trace it ran.
entry_check(net, memo, ev, i) ==
    LET fixed == fixed_constraints(net, ev, i)
    IN  IF fixed = <<>>
        THEN [error |-> "none", raises |-> FALSE, beam |-> <<>>,
              memo |-> memo]
        ELSE CHOOSE r \in {
               [error  |-> t.error,
                raises |-> /\ ~IsEmptyDist(t.dist)
                           /\ \A val \in ev[i][2] : DistGet(t.dist, val) <= 0,
                beam   |-> t.beam,
                memo   |-> t.memo]
               : t \in {trace_from(net, memo, ev[i][1], fixed)} } : TRUE

Threads == {"t1", "t2"}

IdleThread ==
    [pc |-> "idle", op |-> "none", target |-> 0, given |-> <<>>,
     evidence |-> <<>>, cur |-> <<>>, todo |-> <<>>, expanded |-> <<>>,
     beam |-> <<>>, value |-> <<>>, dist |-> EmptyDist, error |-> "none",
     overlapped |-> FALSE]

NoThreads == [th \in Threads |-> IdleThread]

T12 == <<1, 2>>

\* A node whose token T1 is a substring of its token T12, and its child:
\* the child is T1 under T12, and T2 or T3 under T1.
NetSubstring ==
    [ parent_names    |-> << <<>>, <<1>> >>,
      possible_values |-> << <<T1, T12>>, Vals3 >>,
      probabilities   |-> <<
          (<<>> :> ((T1 :> Denom \div 2) @@ (T12 :> Denom \div 2))),
          (<<T12>> :> Only(T1))
              @@ (<<T1>> :> ((T2 :> Denom \div 2) @@ (T3 :> Denom \div 2))) >> ]

ThreadNetworks == {NetCollider, NetSubstring}

Last(s) == s[Len(s)]

\* The evidence maps the threads' queries are given: none, one entry on the
\* last node, one entry that allows every token of the first node, and two
\* entries in either order.
ThreadEvidence(net) ==
    LET pv == net.possible_values
        N  == Len(pv)
    IN  { <<>>,
          << <<N, {pv[N][2]}>> >>,
          << <<1, Range(pv[1])>> >>,
          << <<1, {Last(pv[1])}>>, <<N, Range(pv[N]) \ {pv[N][1]}>> >>,
          << <<2, {pv[2][1]}>>, <<1, {pv[1][1]}>> >> }

----------------------------------------------------------------------------
(* Strings.  A python str is the sequence of its characters; the methods   *)
(* the code calls on node names and keys are computed on the characters.   *)
(* Below, CHOOSE r \in {e : x \in {v}} : TRUE is e with x bound to the      *)
(* value of v: a local that the code computes once.                        *)

\* str.casefold over the alphabet of the names below.
casefold(s) ==
    [i \in DOMAIN s |-> CASE s[i] = "A" -> "a"
                          [] s[i] = "B" -> "b"
                          [] s[i] = "C" -> "c"
                          [] s[i] = "D" -> "d"
                          [] s[i] = "X" -> "x"
                          [] OTHER -> s[i]]

\* The positions of the separator in s.
Dots(s) == {i \in DOMAIN s : s[i] = "."}

\* s.rsplit('.', 1)
rsplit(s) ==
    IF Dots(s) = {} THEN <<s>>
    ELSE LET i == CHOOSE x \in Dots(s) : \A y \in Dots(s) : y <= x
         IN  <<SubSeq(s, 1, i - 1), SubSeq(s, i + 1, Len(s))>>

\* s.split('.')
RECURSIVE split(_)
split(s) ==
    IF Dots(s) = {} THEN <<s>>
    ELSE LET i == CHOOSE x \in Dots(s) : \A y \in Dots(s) : x <= y
         IN  <<SubSeq(s, 1, i - 1)>> \o split(SubSeq(s, i + 1, Len(s)))

\* '.'.join(parts)
RECURSIVE join(_)
join(parts) ==
    IF parts = <<>> THEN <<>>
    ELSE IF Len(parts) = 1 THEN parts[1]
    ELSE parts[1] \o <<".">> \o join(Tail(parts))

\* s.startswith(p)
startswith(s, p) == Len(p) <= Len(s) /\ SubSeq(s, 1, Len(p)) = p

\* dict(items): the keys in order of first insertion, each with the value
\* of its last occurrence.
RECURSIVE dict_of(_)
dict_of(items) ==
    IF items = <<>> THEN <<>>
    ELSE LET n    == Len(items)
             init == dict_of(SubSeq(items, 1, n - 1))
             k    == items[n][1]
         IN  IF \E i \in DOMAIN init : init[i][1] = k
             THEN [i \in DOMAIN init |->
                      IF init[i][1] = k THEN items[n] ELSE init[i]]
             ELSE Append(init, items[n])

\* The keys of an ordered dict, and the value under a key it holds.
dict_keys(d) == [i \in DOMAIN d |-> d[i][1]]

dict_get(d, k) == (CHOOSE e \in Range(d) : e[1] = k)[2]

----------------------------------------------------------------------------
(* JSON values, as orjson.loads returns them: a number, a string or a      *)
(* dict (a function from keys to JSON values).                             *)

Num(n) == <<"num", n>>

Str(s) == <<"str", s>>

Dict(f) == <<"dict", f>>

IsDict(v) == v[1] = "dict"

\* orjson.loads(text.casefold()) for the text of v: every key and every
\* string is casefolded.
RECURSIVE casefold_json(_)
casefold_json(v) ==
    CASE v[1] = "str" -> Str(casefold(v[2]))
      [] v[1] = "dict" ->
            Dict([k \in {casefold(x) : x \in DOMAIN v[2]} |->
                    casefold_json(
                        v[2][CHOOSE x \in DOMAIN v[2] : casefold(x) = k])])
      [] OTHER -> v

\* _at_path(data, path, casefold=fold): the value at the path, or the
\* error raised on the way.  With casefold the data is first wrapped in a
\* CaseInsensitiveDict, which fails on a number (TypeError) or a string
\* (ValueError) before the key is looked up.
RECURSIVE at_path(_, _, _)
at_path(data, path, fold) ==
    IF path = <<>>
    THEN [ok |-> TRUE, value |-> data, error |-> "none", missing |-> <<>>]
    ELSE LET key  == Head(path)
             keys == IF IsDict(data) THEN DOMAIN data[2] ELSE {}
             hit  == {k \in keys :
                        IF fold THEN casefold(k) = casefold(key)
                        ELSE k = key}
             fail(e) == [ok |-> FALSE, value |-> Num(0), error |-> e,
                         missing |-> key]
         IN  IF fold /\ data[1] = "num" THEN fail("TypeError")
             ELSE IF fold /\ data[1] = "str" THEN fail("ValueError")
             ELSE IF hit = {} THEN fail("NodePathError")
             ELSE at_path(data[2][CHOOSE k \in hit : TRUE], Tail(path), fold)

----------------------------------------------------------------------------
(* Named networks: node names and the value store next to the CPTs.        *)
(* names[i] is the name of node i; values[t] is the JSON value the value   *)
(* store holds for token t.                                                *)

T4 == <<4>>
T5 == <<5>>

key_c == <<"c">>
key_d == <<"d">>

\* Node 'a' holds nested objects, its child 'a.B' holds strings; 'a.B' is
\* "y" only when 'a' is {"c": 5}.
NetNested ==
    [ parent_names    |-> << <<>>, <<1>> >>,
      possible_values |-> << Vals3, <<T4, T5>> >>,
      probabilities   |-> <<
          (<<>> :> Row3(1, 1, 2)),
          (<<T1>> :> (T4 :> Denom)) @@ (<<T2>> :> (T4 :> Denom))
              @@ (<<T3>> :> ((T4 :> Denom \div 2) @@ (T5 :> Denom \div 2))) >>,
      names           |-> << <<"a">>, <<"a", ".", "B">> >>,
      values          |->
          (T1 :> Dict(key_c :> Dict(key_d :> Num(1))))
          @@ (T2 :> Dict(key_c :> Dict(key_d :> Num(2))))
          @@ (T3 :> Dict(key_c :> Num(5)))
          @@ (T4 :> Str(<<"X">>))
          @@ (T5 :> Str(<<"y">>)) ]

\* The chain of NetChain under the names 'a.b', 'a.C' and 'ax': no node is
\* named 'a'.
NetDotted ==
    [ names  |-> << <<"a", ".", "b">>, <<"a", ".", "C">>, <<"a", "x">> >>,
      values |-> (T1 :> Num(1)) @@ (T2 :> Num(2)) ] @@ NetChain

NamedNetworks == {NetNested, NetDotted}

\* CaseInsensitiveDict._convert_keys (structs.py:39-42) over the keys ks.
RECURSIVE convert_keys(_, _)
convert_keys(d, ks) ==
    IF ks = <<>> THEN d
    ELSE LET k      == Head(ks)
             v      == dict_get(d, k)
             popped == Filter(d, {e \in Range(d) : e[1] # k})
         IN  convert_keys(dict_of(Append(popped, <<casefold(k), v>>)),
                          Tail(ks))

\* {node.name: node for node in nodes_in_sampling_order}
nodes_by_original_name(net) ==
    dict_of([i \in DOMAIN net.names |-> <<net.names[i], i>>])

\* NETWORK.nodes_by_name
nodes_by_name(net) ==
    convert_keys(nodes_by_original_name(net),
                 dict_keys(nodes_by_original_name(net)))

\* NETWORK.node_names
node_names(net) == dict_keys(nodes_by_original_name(net))

\* name in NETWORK.nodes_by_name
is_node(net, name) ==
    \E e \in Range(nodes_by_name(net)) : e[1] = casefold(name)

\* NETWORK.nodes_by_name[name]
node_named(net, name) == dict_get(nodes_by_name(net), casefold(name))

\* _lookup_possibilities(node_name, casefold=fold): None, or the dict
\* {value: lookup_index} in the order of possible_values.
lookup_possibilities(net, node_name, fold) ==
    IF ~is_node(net, node_name) THEN [found |-> FALSE, items |-> <<>>]
    ELSE LET lookup_values == net.possible_values[node_named(net, node_name)]
             actual(i)     == net.values[lookup_values[i]]
         IN  [found |-> TRUE,
              items |-> dict_of([i \in DOMAIN lookup_values |->
                          <<IF fold THEN casefold_json(actual(i))
                            ELSE actual(i),
                            lookup_values[i]>>])]

Reverse(s) == [i \in DOMAIN s |-> s[Len(s) + 1 - i]]

\* The loop of _lookup_root_possibilities (lines 157-183) from key with the
\* segments already collected in nested.
RECURSIVE lookup_root_loop(_, _, _, _)
lookup_root_loop(net, key, nested, fold) ==
    LET invalid == [ok |-> FALSE, error |-> "InvalidNode", key |-> key,
                    possible_values |-> <<>>, nested_keys |-> nested]
    IN  IF key = <<>> THEN invalid
        ELSE LET keys == rsplit(key)
             IN  IF Len(keys) # 2 THEN invalid
                 ELSE LET p == lookup_possibilities(net, keys[1], fold)
                          collected == Append(nested, keys[2])
                      IN  IF p.found
                          THEN [ok |-> TRUE, error |-> "none",
                                key |-> keys[1],
                                possible_values |-> p.items,
                                nested_keys |-> Reverse(collected)]
                          ELSE lookup_root_loop(net, keys[1], collected, fold)

\* Mutant: the stripped segments are returned in the order of stripping.
lookup_root_possibilities_unreversed(net, key, fold) ==
    LET r == lookup_root_loop(net, key, <<>>, fold)
    IN  [r EXCEPT !.nested_keys = Reverse(r.nested_keys)]

\* _lookup_root_possibilities(key, nested_keys=[], casefold=fold)
lookup_root_possibilities(net, key, fold) ==
    lookup_root_loop(net, key, <<>>, fold)

\* Mutant: every node whose name starts with the domain is yielded.
search_downward_any_prefix(net, domain) ==
    LET keys  == dict_keys(nodes_by_name(net))
        found == {i \in DOMAIN keys : startswith(keys[i], domain)}
        order == SortedSeq(found)
    IN  [ok    |-> found # {},
         error |-> IF found = {} THEN "InvalidNode" ELSE "none",
         nodes |-> [j \in DOMAIN order |-> node_names(net)[order[j]]]]

\* _search_downward(domain): the names yielded, in order, and the
\* InvalidNode raised after the loop when none was.
search_downward(net, domain) ==
    LET keys  == dict_keys(nodes_by_name(net))
        found == {i \in DOMAIN keys :
                    /\ startswith(keys[i], domain)
                    /\ ~(Len(keys[i]) > Len(domain)
                            /\ keys[i][Len(domain) + 1] # ".")}
        order == SortedSeq(found)
    IN  [ok    |-> found # {},
         error |-> IF found = {} THEN "InvalidNode" ELSE "none",
         nodes |-> [j \in DOMAIN order |-> node_names(net)[order[j]]]]

\* The loop of _find_roots (lines 230-245) for one casefolded target.
RECURSIVE find_root(_, _)
find_root(net, target) ==
    IF is_node(net, target)
    THEN [ok |-> TRUE, error |-> "none", nodes |-> <<target>>]
    ELSE LET keys == rsplit(target)
         IN  IF Len(keys) > 1 THEN find_root(net, keys[1])
             ELSE search_downward(net, keys[1])

\* _find_roots(targets), consumed to its end: every name yielded, or the
\* error that ended it.
RECURSIVE find_roots(_, _)
find_roots(net, targets) ==
    IF targets = <<>> THEN [ok |-> TRUE, error |-> "none", nodes |-> <<>>]
    ELSE LET first == find_root(net, casefold(Head(targets)))
             rest  == find_roots(net, Tail(targets))
         IN  IF ~first.ok THEN first
             ELSE IF ~rest.ok THEN rest
             ELSE [ok |-> TRUE, error |-> "none",
                   nodes |-> first.nodes \o rest.nodes]

----------------------------------------------------------------------------
(* utils.build_evidence, the whole call.                                   *)
(* A user mapping is the sequence of its (key, value) pairs in insertion   *)
(* order.  A value is a scalar <<"json", v>>, a tuple <<"tuple", vs>> of   *)
(* scalars, a predicate <<"pred", S>> (true exactly of the JSON values in  *)
(* S) or a nested mapping <<"map", pairs>>.  The JSON text of a value      *)
(* stands for the value it parses to: dumps followed by loads keeps the    *)
(* structure, and text.casefold() in between is casefold_json.             *)

Scalar(v) == <<"json", v>>

Tuple(vs) == <<"tuple", vs>>

Pred(S) == <<"pred", S>>

Mapping(pairs) == <<"map", pairs>>

\* The (key, value) items _flatten_conditions collects (lines 387-401).
RECURSIVE flatten_items(_, _, _)
flatten_items(dictionary, parent_key, fold) ==
    IF dictionary = <<>> THEN <<>>
    ELSE LET key     == dictionary[1][1]
             value   == dictionary[1][2]
             new_key == IF parent_key # <<>>
                        THEN parent_key \o <<".">> \o key ELSE key
             here    == IF value[1] = "map"
                        THEN dict_of(flatten_items(value[2], new_key, FALSE))
                        ELSE << <<IF fold THEN casefold(new_key) ELSE new_key,
                                  value>> >>
         IN  here \o flatten_items(Tail(dictionary), parent_key, fold)

\* _flatten_conditions(dictionary, casefold=fold)
flatten_conditions(dictionary, fold) ==
    dict_of(flatten_items(dictionary, <<>>, fold))

\* _tupilize(value)
tupilize(value) == IF value[1] = "tuple" THEN
                       [i \in DOMAIN value[2] |-> Scalar(value[2][i])]
                   ELSE <<value>>

\* The lookup indexes lines 440-452 add for one value_con under a nested
\* path.
nested_matches(possible_values, nested_keys, value_con) ==
    {e[2] : e \in {x \in Range(possible_values) :
        LET target == at_path(x[1], nested_keys, FALSE)
        IN  /\ target.ok
            /\ IF value_con[1] = "pred" THEN target.value \in value_con[2]
               ELSE target.value = casefold_json(value_con[2])}}

\* The lookup indexes lines 474-477 add for a predicate on the whole value.
predicate_matches(possible_values, value_con) ==
    {e[2] : e \in {x \in Range(possible_values) : x[1] \in value_con[2]}}

\* possible_values.get(value_con.casefold()) of line 485, as a set.
scalar_matches(possible_values, value_con) ==
    {e[2] : e \in {x \in Range(possible_values) :
                      x[1] = casefold_json(value_con[2])}}

\* The loop of lines 429-489 over the remaining value_cons, with the token
\* set acc collected so far: the final set, or InvalidConstraints.
RECURSIVE match_values(_, _, _, _)
match_values(possible_values, nested_keys, cons, acc) ==
    IF cons = <<>> THEN [ok |-> TRUE, tokens |-> acc]
    ELSE LET value_con == Head(cons)
             nested    == [i \in DOMAIN nested_keys |->
                              casefold(nested_keys[i])]
             matches   == IF nested_keys # <<>>
                          THEN nested_matches(possible_values, nested,
                                              value_con)
                          ELSE IF value_con[1] = "pred"
                          THEN predicate_matches(possible_values, value_con)
                          ELSE scalar_matches(possible_values, value_con)
         IN  CHOOSE r \in {
               LET raises == IF nested_keys # <<>> THEN acc \cup found = {}
                             ELSE found = {}
               IN  IF raises THEN [ok |-> FALSE, tokens |-> acc \cup found]
                   ELSE match_values(possible_values, nested_keys,
                                     Tail(cons), acc \cup found)
               : found \in {matches} } : TRUE

\* evidence[key] = tokens on an ordered dict.
evidence_put(ev, key, tokens) ==
    IF \E i \in DOMAIN ev : ev[i][1] = key
    THEN [i \in DOMAIN ev |-> IF ev[i][1] = key THEN <<key, tokens>>
                              ELSE ev[i]]
    ELSE Append(ev, <<key, tokens>>)

\* The evidence keyed by node index, as the network operators take it.
evidence_by_index(net, ev) ==
    [i \in DOMAIN ev |->
        <<CHOOSE n \in DOMAIN net.names : net.names[n] = ev[i][1], ev[i][2]>>]

evidence_by_name(net, ev) ==
    [i \in DOMAIN ev |-> <<net.names[ev[i][1]], ev[i][2]>>]

\* Lines 418-423: the possible values of the key when it names a node, else
\* the root _lookup_root_possibilities finds for it and the nested keys.
resolve_key(net, key) ==
    LET direct == lookup_possibilities(net, key, TRUE)
    IN  IF direct.found
        THEN [ok |-> TRUE, error |-> "none", key |-> key,
              possible_values |-> direct.items, nested_keys |-> <<>>]
        ELSE lookup_root_possibilities(net, key, TRUE)

\* Mutant: a key that resolves to no node is skipped.
compile_key_skips_unknown(net, key, value, ev) ==
    LET lookup == resolve_key(net, key)
    IN  CHOOSE r \in {
          IF ~root.ok
          THEN [ok |-> TRUE, error |-> "none", evidence |-> ev]
          ELSE CHOOSE q \in {
                 [ok |-> m.ok,
                  error |-> IF m.ok THEN "none" ELSE "InvalidConstraints",
                  evidence |-> evidence_put(
                      ev, net.names[node_named(net, root.key)], m.tokens)]
                 : m \in {match_values(root.possible_values,
                                       root.nested_keys, tupilize(value),
                                       {})} } : TRUE
          : root \in {lookup} } : TRUE

\* One iteration of the loop of lines 417-489: the flat key and its value
\* compiled into the evidence ev.
compile_key(net, key, value, ev) ==
    LET lookup == resolve_key(net, key)
    IN  CHOOSE r \in {
          IF ~root.ok
          THEN [ok |-> FALSE, error |-> root.error, evidence |-> ev]
          ELSE CHOOSE q \in {
                 [ok |-> m.ok,
                  error |-> IF m.ok THEN "none" ELSE "InvalidConstraints",
                  evidence |-> evidence_put(
                      ev, net.names[node_named(net, root.key)], m.tokens)]
                 : m \in {match_values(root.possible_values,
                                       root.nested_keys, tupilize(value),
                                       {})} } : TRUE
          : root \in {lookup} } : TRUE

\* The loop of lines 417-489 over the flattened conditions.
RECURSIVE compile_keys(_, _, _)
compile_keys(net, conds, ev) ==
    IF conds = <<>>
    THEN [ok |-> TRUE, error |-> "none", evidence |-> ev, key |-> <<>>]
    ELSE CHOOSE r \in {
           IF ~c.ok
           THEN [ok |-> FALSE, error |-> c.error, evidence |-> c.evidence,
                 key |-> conds[1][1]]
           ELSE compile_keys(net, Tail(conds), c.evidence)
           : c \in {compile_key(net, conds[1][1], conds[1][2], ev)} } : TRUE

\* build_evidence(conditions, evidence, strict), lines 405-500: whether it
\* returned, the error it raised, the flat key it raised at, and the
\* caller's evidence dict as the call left it.
compile_evidence(net, conditions, ev, strict) ==
    CHOOSE r \in {
      IF ~c.ok THEN c
      ELSE CHOOSE q \in {
             [ok |-> ~b.raised,
              error |-> IF b.raised THEN "RestrictiveConstraints"
                        ELSE "none",
              evidence |-> evidence_by_name(net, b.evidence),
              key |-> <<>>]
             : b \in {build_evidence(net, evidence_by_index(net, c.evidence),
                                     strict)} } : TRUE
      : c \in {compile_keys(net, flatten_conditions(conditions, TRUE),
                            ev)} } : TRUE

----------------------------------------------------------------------------
(* utils._make_output_dict and utils._reassemble_targets.  The sampler's   *)
(* output is the sequence of its (node name, token) pairs in insertion     *)
(* order.                                                                  *)

\* d[key] = value on the body of a dict.
dict_put(f, key, value) ==
    [k \in DOMAIN f \cup {key} |-> IF k = key THEN value ELSE f[k]]

\* Lines 545-551 for one key: descend along parts[:-1], creating the dicts
\* that are missing, and store value under parts[-1].  Descending into a
\* value that is not a dict ends in TypeError.
RECURSIVE set_path(_, _, _)
set_path(d, parts, value) ==
    IF Len(parts) = 1
    THEN [ok |-> TRUE, error |-> "none",
          value |-> Dict(dict_put(d[2], parts[1], value))]
    ELSE LET part  == parts[1]
             child == IF part \in DOMAIN d[2] THEN d[2][part] ELSE Dict(<<>>)
         IN  IF ~IsDict(child)
             THEN [ok |-> FALSE, error |-> "TypeError", value |-> d]
             ELSE LET r == set_path(child, Tail(parts), value)
                  IN  IF ~r.ok THEN r
                      ELSE [ok |-> TRUE, error |-> "none",
                            value |-> Dict(dict_put(d[2], part, r.value))]

\* The loop of lines 544-551 over the remaining items.
RECURSIVE unflatten_output(_, _, _)
unflatten_output(net, data, result_dict) ==
    IF data = <<>>
    THEN [ok |-> TRUE, error |-> "none", value |-> result_dict]
    ELSE LET r == set_path(result_dict, split(data[1][1]),
                           net.values[data[1][2]])
         IN  IF ~r.ok THEN r
             ELSE unflatten_output(net, Tail(data), r.value)

\* The (key, value) leaves _flatten(dictionary, parent_key) collects for
\* one value stored under new_key (lines 313-320).
RECURSIVE flatten_value(_, _)
flatten_value(new_key, value) ==
    IF IsDict(value)
    THEN UNION {flatten_value(new_key \o <<".">> \o k, value[2][k]) :
                   k \in DOMAIN value[2]}
    ELSE {<<new_key, value>>}

\* _flatten(data) over the decoded items, later keys replacing earlier
\* equal ones.
RECURSIVE flatten_output(_, _, _)
flatten_output(net, data, f) ==
    IF data = <<>> THEN f
    ELSE LET leaves == flatten_value(data[1][1], net.values[data[1][2]])
             g      == [k \in DOMAIN f \cup {l[1] : l \in leaves} |->
                          IF \E l \in leaves : l[1] = k
                          THEN (CHOOSE l \in leaves : l[1] = k)[2]
                          ELSE f[k]]
         IN  flatten_output(net, Tail(data), g)

\* _make_output_dict(data, flatten)
make_output_dict(net, data, flatten) ==
    IF flatten
    THEN [ok |-> TRUE, error |-> "none",
          value |-> Dict(flatten_output(net, data, <<>>))]
    ELSE unflatten_output(net, data, Dict(<<>>))

\* _reassemble_targets(targets, fingerprint), lines 248-256.
RECURSIVE reassemble_targets(_, _)
reassemble_targets(targets, fingerprint) ==
    IF targets = <<>> THEN [ok |-> TRUE, error |-> "none", value |-> <<>>]
    ELSE LET data == at_path(fingerprint, split(Head(targets)), TRUE)
             rest == reassemble_targets(Tail(targets), fingerprint)
         IN  IF ~data.ok
             THEN [ok |-> FALSE,
                   error |-> IF data.error = "NodePathError"
                             THEN "InvalidNode" ELSE data.error,
                   value |-> <<>>]
             ELSE IF ~rest.ok THEN rest
             ELSE [ok |-> TRUE, error |-> "none",
                   value |-> dict_of(<< <<Head(targets), data.value>> >>
                                     \o rest.value)]

----------------------------------------------------------------------------
(* generator.Generator: the constraints it caches and the samples it       *)
(* generates.  filtered_values is a dict {key: list of tokens}, the        *)
(* sequence of its (key, list) pairs in insertion order.                   *)

window == <<"w", "i", "n", "d", "o", "w">>

outerwidth == <<"o", "u", "t", "e", "r", "w", "i", "d", "t", "h">>

innerwidth == <<"i", "n", "n", "e", "r", "w", "i", "d", "t", "h">>

outerheight == <<"o", "u", "t", "e", "r", "h", "e", "i", "g", "h", "t">>

innerheight == <<"i", "n", "n", "e", "r", "h", "e", "i", "g", "h", "t">>

\* The decoded value of a 'window' token.
Window(ow, iw, oh, ih) ==
    Dict((outerwidth :> Num(ow)) @@ (innerwidth :> Num(iw))
         @@ (outerheight :> Num(oh)) @@ (innerheight :> Num(ih)))

\* Node 'a' with values 1 and 2 and its child 'window': 800x600 or an
\* inner 1200x900 without outer size when 'a' is 1, the latter or
\* 1600x1200 when 'a' is 2.
NetWindow ==
    [ parent_names    |-> << <<>>, <<1>> >>,
      possible_values |-> << Vals2, <<T3, T4, T5>> >>,
      probabilities   |-> <<
          (<<>> :> Row(2, 2)),
          (<<T1>> :> ((T3 :> Denom \div 2) @@ (T4 :> Denom \div 2)))
              @@ (<<T2>> :> ((T4 :> Denom \div 2) @@ (T5 :> Denom \div 2))) >>,
      names           |-> << <<"a">>, window >>,
      values          |->
          (T1 :> Num(1)) @@ (T2 :> Num(2))
          @@ (T3 :> Window(800, 780, 600, 580))
          @@ (T4 :> Window(0, 1200, 0, 900))
          @@ (T5 :> Window(1600, 1580, 1200, 1180)) ]

\* Python None.
None == <<"None">>

\* A WindowBounds object; a bound of 0 stands for None as well, which the
\* code reads alike (`window.min_width or 0`, `window.max_width or 1e5`).
WindowBounds(min_width, max_width, min_height, max_height) ==
    <<"WindowBounds", [min_width |-> min_width, max_width |-> max_width,
                       min_height |-> min_height, max_height |-> max_height]>>

\* _first(value, default)
first(value, default) == IF value # None THEN value ELSE default

\* The tokens lines 224-229 or 239-243 append for one value_con, in the
\* order of possible_values.
tokens_matching(possible_values, nested_keys, value_con) ==
    LET val  == casefold_json(value_con[2])
        hits == Filter(possible_values,
                    {x \in Range(possible_values) :
                        IF nested_keys = <<>> THEN x[1] = val
                        ELSE LET target == at_path(x[1], nested_keys, FALSE)
                             IN  target.ok /\ target.value = val})
    IN  [i \in DOMAIN hits |-> hits[i][2]]

\* The loop of lines 212-244 over the remaining value_cons, the list being
\* acc so far: the final list, or InvalidConstraints.
RECURSIVE filter_values(_, _, _, _)
filter_values(possible_values, nested_keys, cons, acc) ==
    IF cons = <<>> THEN [ok |-> TRUE, tokens |-> acc]
    ELSE CHOOSE r \in {
           LET raises == IF nested_keys # <<>> THEN acc \o found = <<>>
                         ELSE found = <<>>
           IN  IF raises THEN [ok |-> FALSE, tokens |-> acc \o found]
               ELSE filter_values(possible_values, nested_keys, Tail(cons),
                                  acc \o found)
           : found \in {tokens_matching(
                           possible_values,
                           [i \in DOMAIN nested_keys |->
                               casefold(nested_keys[i])],
                           Head(cons))} } : TRUE

\* One iteration of the loop of lines 204-244: filtered_values[key] for the
\* key as looked up, not the node's own spelling of its name.
build_constraint(net, key, value, filtered_values) ==
    CHOOSE r \in {
      IF ~root.ok
      THEN [ok |-> FALSE, error |-> "InvalidConstraints",
            filtered_values |-> filtered_values]
      ELSE CHOOSE q \in {
             [ok |-> m.ok,
              error |-> IF m.ok THEN "none" ELSE "InvalidConstraints",
              filtered_values |->
                  evidence_put(filtered_values, root.key, m.tokens)]
             : m \in {filter_values(root.possible_values, root.nested_keys,
                                    tupilize(value), <<>>)} } : TRUE
      : root \in {resolve_key(net, key)} } : TRUE

RECURSIVE build_constraints_loop(_, _, _)
build_constraints_loop(net, constraints, filtered_values) ==
    IF constraints = <<>>
    THEN [ok |-> TRUE, error |-> "none", filtered_values |-> filtered_values]
    ELSE CHOOSE r \in {
           IF ~c.ok THEN c
           ELSE build_constraints_loop(net, Tail(constraints),
                                       c.filtered_values)
           : c \in {build_constraint(net, constraints[1][1],
                                     constraints[1][2],
                                     filtered_values)} } : TRUE

\* Generator._build_constraints(constraints, filtered_values), lines
\* 196-246: the error raised, if any, and the dict as the call leaves it.
build_constraints(net, constraints, filtered_values) ==
    build_constraints_loop(net, flatten_conditions(constraints, TRUE),
                           filtered_values)

\* `a or b` on two decoded JSON values.
python_or(a, b) == IF a = Num(0) \/ a = Str(<<>>) THEN b ELSE a

\* Generator._is_window_within_constraints(window_string, window)
is_window_within_constraints(window_data, bounds) ==
    LET width  == python_or(window_data[2][outerwidth],
                            window_data[2][innerwidth])
        height == python_or(window_data[2][outerheight],
                            window_data[2][innerheight])
        floor(b) == IF b = 0 THEN 0 ELSE b
        ceil(b)  == IF b = 0 THEN 100000 ELSE b
    IN  IF width[1] # "num" \/ height[1] # "num" THEN FALSE
        ELSE /\ width[2] >= floor(bounds[2].min_width)
             /\ width[2] <= ceil(bounds[2].max_width)
             /\ height[2] >= floor(bounds[2].min_height)
             /\ height[2] <= ceil(bounds[2].max_height)

\* del d[key]
dict_del(d, key) == Filter(d, {e \in Range(d) : e[1] # key})

\* Generator._filter_by_window(strict, window, filtered_values), lines
\* 248-268: the error raised, if any, and the dict as the call leaves it.
filter_by_window(net, strict, bounds, filtered_values) ==
    LET possible_windows == lookup_possibilities(net, window, TRUE).items
        fitting  == Filter(possible_windows,
                        {x \in Range(possible_windows) :
                            is_window_within_constraints(x[1], bounds)})
        written  == evidence_put(filtered_values, window,
                                 [i \in DOMAIN fitting |-> fitting[i][2]])
    IN  IF fitting # <<>>
        THEN [ok |-> TRUE, error |-> "none", filtered_values |-> written]
        ELSE IF strict
        THEN [ok |-> FALSE, error |-> "InvalidScreenConstraints",
              filtered_values |-> written]
        ELSE [ok |-> TRUE, error |-> "none",
              filtered_values |-> dict_del(written, window)]

\* The evidence the network reads in filtered_values: the entries keyed by
\* a node's name, by node, with the members of their lists.
evidence_of(net, filtered_values) ==
    LET named == Filter(filtered_values,
                     {e \in Range(filtered_values) :
                         \E n \in DOMAIN net.names : net.names[n] = e[1]})
    IN  [i \in DOMAIN named |->
            <<CHOOSE n \in DOMAIN net.names : net.names[n] = named[i][1],
              Range(named[i][2])>>]

\* The fingerprint as the dict {node name: token} in sampling order.
fingerprint_of(net, sample) ==
    LET ns == SortedSeq(DOMAIN sample)
    IN  [i \in DOMAIN ns |-> <<net.names[ns[i]], sample[ns[i]]>>]

\* Lines 177-183: the output dictionary of a fingerprint and, for a target,
\* the value at its path.
output_of(net, sample, target) ==
    LET output == make_output_dict(net, fingerprint_of(net, sample), FALSE)
    IN  IF ~output.ok \/ target = None THEN output
        ELSE LET found == reassemble_targets(<<target[2]>>, output.value)
             IN  IF ~found.ok
                 THEN [ok |-> FALSE, error |-> "InvalidConstraints",
                       value |-> output.value]
                 ELSE [ok |-> TRUE, error |-> "none",
                       value |-> found.value[1][2]]

\* Lines 137-151 of Generator.generate on the Generator object g: the
\* filtered_values the call samples under, or the error raised.  A call
\* without constraints works on the cached dict itself (line 141), a call
\* with constraints on a new one (lines 138-139).
filtered_for(net, g, constraints, window_bounds, strict_arg) ==
    LET bounds == first(window_bounds, g.window_bounds)
        strict == first(strict_arg, <<"bool", g.strict>>)[2]
    IN  CHOOSE r \in {
          IF ~built.ok \/ bounds = None THEN built
          ELSE filter_by_window(net, strict, bounds, built.filtered_values)
          : built \in {IF constraints # <<>>
                       THEN build_constraints(net, constraints, <<>>)
                       ELSE [ok |-> TRUE, error |-> "none",
                             filtered_values |-> g.filtered_values]} } : TRUE

\* Lines 153-183 of Generator.generate: every outcome of sampling under
\* the evidence ev for the target roots, shaped for the target.
sampled_outcomes(net, ev, roots, target, cached) ==
    LET drawn == IF roots = <<>>
                 THEN generate_consistent_sample(net, ev)
                 ELSE generate_certain_nodes(
                          net, ev, {n \in DOMAIN net.names :
                                       net.names[n] \in Range(roots)})
    IN  {IF ~o.ok
         THEN [ok |-> FALSE, error |-> o.error, sample |-> <<>>,
               value |-> Dict(<<>>), filtered_values |-> cached]
         ELSE CHOOSE r \in {
                [ok |-> out.ok, error |-> out.error, sample |-> o.value,
                 value |-> out.value, filtered_values |-> cached]
                : out \in {output_of(net, o.value, target)} } : TRUE
         : o \in drawn}

\* Generator.generate, lines 128-183, on the Generator object g: every
\* outcome, each with the object's cached filtered_values as the call
\* leaves them.
generate_outcomes(net, g, constraints, window_bounds, strict_arg, target) ==
    UNION {
      LET cached == IF constraints = <<>> THEN filtered.filtered_values
                    ELSE g.filtered_values
          raised(e) == [ok |-> FALSE, error |-> e, sample |-> <<>>,
                        value |-> Dict(<<>>), filtered_values |-> cached]
      IN  IF ~filtered.ok THEN {raised(filtered.error)}
          ELSE IF ~roots.ok THEN {raised("InvalidConstraints")}
          ELSE UNION {sampled_outcomes(net, ev, roots.nodes, target, cached)
                      : ev \in {evidence_of(net, filtered.filtered_values)}}
      : filtered \in {filtered_for(net, g, constraints, window_bounds,
                                   strict_arg)},
        roots \in {IF target = None
                   THEN [ok |-> TRUE, error |-> "none", nodes |-> <<>>]
                   ELSE find_roots(net, <<target[2]>>)} }

\* Constraints a caller passes to Generator(...) or to generate(...).
GeneratorConstraints ==
    { <<>>,
      << <<<<"a">>, Scalar(Num(1))>> >>,
      << <<<<"A">>, Tuple(<<Num(2), Num(1)>>)>> >>,
      << <<window \o <<".">> \o outerwidth, Scalar(Num(800))>> >>,
      << <<window, Mapping(<< <<innerwidth,
                                Tuple(<<Num(1200), Num(1580)>>)>> >>)>> >>,
      << <<<<"a">>, Scalar(Num(2))>>,
         <<window, Mapping(<< <<outerheight, Scalar(Num(1200))>> >>)>> >>,
      << <<<<"a">>, Scalar(Num(5))>> >>,
      << <<<<"q">>, Scalar(Num(1))>> >> }

\* Window bounds: none, at least 1000 wide, at most 1000 by 1000, at most
\* 500 wide (no window of NetWindow fits).
WindowBoundsChoices ==
    { None, WindowBounds(1000, 0, 0, 0), WindowBounds(0, 1000, 0, 1000),
      WindowBounds(0, 500, 0, 0) }

StrictChoices == { None, <<"bool", TRUE>>, <<"bool", FALSE>> }

GeneratorTargets == { None, <<"str", <<"a">>>>,
                      <<"str", window \o <<".">> \o outerwidth>> }

----------------------------------------------------------------------------
(* unpacker: the value store.  A token is a base-85 string, written as the *)
(* sequence of the digit values of its characters (0 .. 84, -1 for a       *)
(* character outside the alphabet); the data file is a sequence of bytes,  *)
(* 255 being a byte that no UTF-8 text contains.                           *)

\* Most handles the model lets be open at once.
MaxOpenFiles == 2

RECURSIVE Pow(_, _)
Pow(b, e) == IF e = 0 THEN 1 ELSE b * Pow(b, e - 1)

\* base64.b85decode on one group of up to five characters followed by
\* int.from_bytes(..., 'big'): the group is padded with '~' (84), read as a
\* 32-bit number and the bytes that stand for the padding are dropped.
base85_to_int(s) ==
    IF \E i \in DOMAIN s : s[i] \notin 0 .. 84
    THEN [ok |-> FALSE, error |-> "ValueError", value |-> 0]
    ELSE LET padding == 5 - Len(s)
             padded  == s \o [i \in 1 .. padding |-> 84]
             acc     == SumSeq([i \in 1 .. 5 |-> padded[i] * Pow(85, 5 - i)])
         IN  [ok |-> TRUE, error |-> "none",
              value |-> acc \div Pow(256, padding)]

\* int(offset, 16) on the hexadecimal digits of offset.
RECURSIVE hex_to_int(_)
hex_to_int(s) ==
    IF s = <<>> THEN 0
    ELSE 16 * hex_to_int(SubSeq(s, 1, Len(s) - 1)) + s[Len(s)]

\* VALUE_PAIRS: the (offset, length) items of values.json.
VALUE_PAIRS == << << <<0>>, 2 >>, << <<2>>, 1 >>, << <<0, 3>>, 2 >>,
                 << <<5>>, 2 >> >>

\* values.dat: "hi", "x", "yz" and two bytes that are not UTF-8.
VALUES_DATA == <<104, 105, 120, 121, 122, 255, 97>>

\* file.seek(int(offset, 16)); file.read(length).decode('utf-8')
read_value(pair) ==
    LET start == hex_to_int(pair[1])
        stop  == IF start + pair[2] <= Len(VALUES_DATA)
                 THEN start + pair[2] ELSE Len(VALUES_DATA)
        data  == SubSeq(VALUES_DATA, start + 1, stop)
    IN  IF \E i \in DOMAIN data : data[i] = 255
        THEN [ok |-> FALSE, error |-> "UnicodeDecodeError", value |-> <<>>]
        ELSE [ok |-> TRUE, error |-> "none", value |-> data]

\* lookup_value(index), lines 50-56: the value or the error raised, and the
\* number of handles the call opened and left open.
lookup_value(index) ==
    LET i == base85_to_int(index)
    IN  IF ~i.ok
        THEN [ok |-> FALSE, error |-> i.error, value |-> <<>>, left_open |-> 0]
        ELSE IF i.value + 1 \notin DOMAIN VALUE_PAIRS
        THEN [ok |-> FALSE, error |-> "IndexError", value |-> <<>>,
              left_open |-> 0]
        ELSE LET data == read_value(VALUE_PAIRS[i.value + 1])
             IN  [ok |-> data.ok, error |-> data.error, value |-> data.value,
                  left_open |-> IF data.ok THEN 0 ELSE 1]

\* sorted(pairs) for a set of (index, n) pairs.
RECURSIVE sorted(_)
sorted(pairs) ==
    IF pairs = {} THEN <<>>
    ELSE LET least == CHOOSE p \in pairs :
                          \A q \in pairs :
                              p[1] < q[1] \/ (p[1] = q[1] /\ p[2] <= q[2])
         IN  <<least>> \o sorted(pairs \ {least})

\* The loop of lines 72-76 over the remaining sorted indices: value_map as
\* it fills, the indices read so far, and the error that ends the loop.
RECURSIVE read_sorted(_, _, _)
read_sorted(sorted_indices, value_map, reads) ==
    IF sorted_indices = <<>>
    THEN [ok |-> TRUE, error |-> "none", value |-> value_map,
          reads |-> reads]
    ELSE LET index == sorted_indices[1][1]
             n     == sorted_indices[1][2]
         IN  IF index + 1 \notin DOMAIN VALUE_PAIRS
             THEN [ok |-> FALSE, error |-> "IndexError",
                   value |-> value_map, reads |-> reads]
             ELSE LET data == read_value(VALUE_PAIRS[index + 1])
                  IN  IF ~data.ok
                      THEN [ok |-> FALSE, error |-> data.error,
                            value |-> value_map,
                            reads |-> Append(reads, index)]
                      ELSE read_sorted(Tail(sorted_indices),
                               [value_map EXCEPT ![n] = data.value],
                               Append(reads, index))

\* Mutant: each value is stored at its rank in the sorted order.
lookup_value_list_in_read_order(index_list) ==
    LET decoded == [n \in DOMAIN index_list |-> base85_to_int(index_list[n])]
    IN  IF \E n \in DOMAIN decoded : ~decoded[n].ok
        THEN [ok |-> FALSE, error |-> "ValueError", value |-> <<>>,
              reads |-> <<>>, left_open |-> 1]
        ELSE LET order == sorted({<<decoded[n].value, n>> :
                                     n \in DOMAIN index_list})
                 r == read_sorted([k \in DOMAIN order |-> <<order[k][1], k>>],
                                  [n \in DOMAIN index_list |-> <<>>], <<>>)
             IN  [ok |-> r.ok, error |-> r.error, value |-> r.value,
                  reads |-> r.reads, left_open |-> IF r.ok THEN 0 ELSE 1]

\* lookup_value_list(index_list), lines 59-79: the values or the error
\* raised, the indices read in the order of reading, and the number of
\* handles the call opened and left open.  The file is opened (line 66)
\* before any token is decoded.
lookup_value_list(index_list) ==
    LET decoded == [n \in DOMAIN index_list |-> base85_to_int(index_list[n])]
    IN  IF \E n \in DOMAIN decoded : ~decoded[n].ok
        THEN [ok |-> FALSE, error |-> "ValueError", value |-> <<>>,
              reads |-> <<>>, left_open |-> 1]
        ELSE LET r == read_sorted(sorted({<<decoded[n].value, n>> :
                                             n \in DOMAIN index_list}),
                                  [n \in DOMAIN index_list |-> <<>>], <<>>)
             IN  [ok |-> r.ok, error |-> r.error, value |-> r.value,
                  reads |-> r.reads, left_open |-> IF r.ok THEN 0 ELSE 1]

\* Tokens: indices 0 to 3 of VALUE_PAIRS, index 4 beyond it, and a token
\* with a character outside the base-85 alphabet.
StoreTokens == { <<0, 0>>, <<0, 27>>, <<0, 54>>, <<0, 82>>, <<1, 24>>,
                 <<0, -1>> }

\* Longest token list of one lookup_value_list call.
MaxTokens == 3

TokenLists ==
    UNION {[1 .. k -> StoreTokens] : k \in 0 .. MaxTokens}

----------------------------------------------------------------------------
(* utils._dedupe and utils._merge_dicts.  A python list is                 *)
(* <<"list", items>>; None is <<"None">>.                                  *)

List(items) == <<"list", items>>

\* The characters of the strings below, in the order of their code points.
CodePoints == <<"X", "a", "b", "c", "d", "e", "x", "y">>

ord(c) == CHOOSE i \in DOMAIN CodePoints : CodePoints[i] = c

\* s < t for two python strings.
RECURSIVE str_less(_, _)
str_less(s, t) ==
    IF t = <<>> THEN FALSE
    ELSE IF s = <<>> THEN TRUE
    ELSE IF s[1] # t[1] THEN ord(s[1]) < ord(t[1])
    ELSE str_less(Tail(s), Tail(t))

\* type(item).__name__
type_name(v) ==
    CASE v[1] = "None" -> <<"N", "o", "n", "e", "T", "y", "p", "e">>
      [] v[1] = "dict" -> <<"d", "i", "c", "t">>
      [] v[1] = "num"  -> <<"i", "n", "t">>
      [] v[1] = "list" -> <<"l", "i", "s", "t">>
      [] v[1] = "str"  -> <<"s", "t", "r">>

\* The type names in the order sorted() gives them (upper case first).
TypeNames ==
    << <<"N", "o", "n", "e", "T", "y", "p", "e">>, <<"d", "i", "c", "t">>,
       <<"i", "n", "t">>, <<"l", "i", "s", "t">>, <<"s", "t", "r">> >>

\* item < other for two items of one sortable type.
item_less(v, w) ==
    CASE v[1] = "num" -> v[2] < w[2]
      [] v[1] = "str" -> str_less(v[2], w[2])
      [] OTHER -> FALSE

\* sorted(items) for distinct items of one sortable type.
sorted_items(items) ==
    [r \in DOMAIN items |->
        items[CHOOSE i \in DOMAIN items :
                 Cardinality({j \in DOMAIN items :
                                 item_less(items[j], items[i])}) = r - 1]]

\* groups[t] of lines 268-275: the first occurrences of the items of type
\* t, in order.
type_group(lst, t) ==
    Dedupe(Filter(lst, {v \in Range(lst) : type_name(v) = t}), {})

\* Mutant: the type groups keep repeated items.
dedupe_keeps_repeats(lst, sort) ==
    Concat([k \in DOMAIN TypeNames |->
        Filter(lst, {v \in Range(lst) : type_name(v) = TypeNames[k]})])

\* _dedupe(lst, sort)
dedupe(lst, sort) ==
    Concat([k \in DOMAIN TypeNames |->
        LET items == type_group(lst, TypeNames[k])
        IN  IF ~sort \/ TypeNames[k] \in {<<"l", "i", "s", "t">>,
                                          <<"d", "i", "c", "t">>}
            THEN items
            ELSE sorted_items(items)])

\* [d[key] for d in dict_list if key in d]
values_at(dict_list, key) ==
    LET having == Filter(dict_list, {d \in Range(dict_list) :
                                        key \in DOMAIN d[2]})
    IN  [i \in DOMAIN having |-> having[i][2][key]]

\* _merge_dicts(dict_list, sort)
RECURSIVE merge_dicts(_, _)
merge_dicts(dict_list, sort) ==
    IF dict_list = <<>> THEN Dict(<<>>)
    ELSE Dict([key \in UNION {DOMAIN dict_list[i][2] :
                                 i \in DOMAIN dict_list} |->
            LET values == values_at(dict_list, key)
            IN  IF \A i \in DOMAIN values : values[i][1] = "dict"
                THEN merge_dicts(values, sort)
                ELSE IF \A i \in DOMAIN values : values[i][1] = "list"
                THEN List(dedupe(Concat([i \in DOMAIN values |->
                                            values[i][2]]), sort))
                ELSE List(dedupe(values, sort))])

\* Longest list of dicts of one _merge_dicts call.
MaxDicts == 3

\* The dicts handed to _merge_dicts: scalars, lists and nested dicts under
\* shared and unshared keys.
MergeInputs ==
    { Dict((<<"a">> :> Num(1)) @@ (<<"b">> :> List(<<Num(2), Num(1)>>))
           @@ (<<"c">> :> Dict((<<"d">> :> Num(1))))),
      Dict((<<"a">> :> Num(1)) @@ (<<"b">> :> List(<<Num(2), Num(3)>>))
           @@ (<<"c">> :> Dict((<<"d">> :> Num(2))))),
      Dict((<<"a">> :> Str(<<"y">>))
           @@ (<<"c">> :> Dict((<<"e">> :> List(<<Str(<<"x">>)>>))))
           @@ (<<"X">> :> <<"None">>)),
      Dict((<<"a">> :> Str(<<"x">>)) @@ (<<"b">> :> Num(2))
           @@ (<<"c">> :> Num(3))),
      Dict(<<>>) }

DictLists == UNION {[1 .. k -> MergeInputs] : k \in 0 .. MaxDicts}

----------------------------------------------------------------------------
(* Inputs of the utils functions *)

\* Constraint keys as a caller writes them.
ConstraintKeys ==
    { <<"a">>, <<"A">>, <<"a", ".", "b">>, <<"a", ".", "c">>,
      <<"a", ".", "C", ".", "d">>, <<"a", ".", "b", ".", "c">>,
      <<"a", "x">>, <<"a", "x", ".", "c">>, <<"q">>, <<"q", ".", "c">>,
      <<"a", ".", "b", ".", "c", ".", "d">>,
      <<"a", ".", ".", "c">>, <<".", "a">> }

\* Constraint values: scalars, tuples (the empty one too) and predicates.
ConstraintValues ==
    { Scalar(Num(1)), Scalar(Num(5)), Scalar(Str(<<"X">>)),
      Scalar(Str(<<"y">>)), Scalar(Str(<<"q">>)),
      Tuple(<<>>), Tuple(<<Str(<<"x">>), Str(<<"y">>)>>),
      Tuple(<<Num(1), Num(9)>>), Tuple(<<Num(9), Num(2)>>),
      Pred({Num(1), Num(2)}), Pred({Str(<<"x">>)}), Pred({}) }

\* Keys and values of the conditions that hold two entries.
PairKeys == { <<"a">>, <<"a", ".", "B">>, <<"a", ".", "c">>,
              <<"a", ".", "c", ".", "d">>, <<"a", "x">>, <<"q">>,
              <<"q", ".", "c">> }

PairValues == { Scalar(Num(1)), Scalar(Num(2)), Scalar(Num(5)),
                Scalar(Str(<<"y">>)), Tuple(<<>>), Pred({Num(1), Num(2)}) }

\* User mappings with a nested mapping as value.
NestedConditions ==
    { << <<<<"A">>, Mapping(<< <<<<"C">>,
            Mapping(<< <<<<"D">>, Scalar(Num(1))>> >>)>> >>)>> >>,
      << <<<<"a">>, Mapping(<< <<<<"b">>, Scalar(Str(<<"x">>))>>,
                               <<<<"c">>, Scalar(Num(5))>> >>)>> >>,
      << <<<<"a", ".", "c">>, Scalar(Num(5))>>,
         <<<<"a">>, Mapping(<< <<<<"C">>, Scalar(Num(1))>> >>)>> >> }

\* The user mappings build_evidence is called with.
Conditions ==
    { << <<k, v>> >> : k \in ConstraintKeys, v \in ConstraintValues }
    \cup { << <<ks[1], v1>>, <<ks[2], v2>> >> :
              ks \in {p \in PairKeys \X PairKeys : p[1] # p[2]},
              v1 \in PairValues, v2 \in PairValues }
    \cup NestedConditions

\* Evidence a caller may already hold when it calls build_evidence.
InheritedEvidence(net) ==
    { <<>>, << <<net.names[1], {net.possible_values[1][1]}>> >> }

\* Targets of generate and trace as a caller writes them.
Targets ==
    { <<"a">>, <<"A">>, <<"a", ".", "b">>, <<"a", ".", "c">>,
      <<"a", ".", "C", ".", "d">>, <<"a", "x">>, <<"A", "X", ".", "q">>,
      <<"q">>, <<"a", ".", "q", ".", "c">> }

TargetLists ==
    { <<t>> : t \in Targets } \cup { <<t1, t2>> : t1 \in Targets, t2 \in Targets }

\* Sampler outputs: a token of its possible values for each node of a
\* sequence of distinct nodes.
RECURSIVE OutputsOver(_, _)
OutputsOver(net, ns) ==
    IF ns = <<>> THEN {<<>>}
    ELSE { << <<net.names[Head(ns)], t>> >> \o rest :
              t \in Range(net.possible_values[Head(ns)]),
              rest \in OutputsOver(net, Tail(ns)) }

SamplerOutputs(net) ==
    UNION { OutputsOver(net, ns) :
               ns \in UNION { Perms(S) : S \in NonEmptySubsets(Nodes(net)) } }

----------------------------------------------------------------------------
(* State *)

VARIABLES
    net,        \* the loaded network (NETWORK)
    pc,         \* "idle", "built", "raised" or "done"
    strict,     \* the strict flag of the current call
    given,      \* the evidence as compiled from the caller's constraints
    evidence,   \* the evidence map after build_evidence
    query,      \* what was run on the evidence
    result,     \* its outcome
    call,       \* the utils, Generator or unpacker call in progress
    ret,        \* what that call returned or raised
    generator,  \* the fields of the Generator object
    open_files, \* the number of value-store file handles left open
    ancestors_by_name,  \* the memoized ancestor sets of the network
    threads     \* the query each thread is running on the shared network

vars == <<net, pc, strict, given, evidence, query, result,
          call, ret, generator, open_files, ancestors_by_name, threads>>

\* The variables of the network engine, and those of the code around it.
engine_vars == <<net, pc, strict, given, evidence, query, result>>

api_vars == <<call, ret, generator, open_files>>

\* The variables of the queries that threads run side by side.
thread_vars == <<ancestors_by_name, threads>>

NoCall == [op |-> "none"]

NoRet == [ok |-> TRUE, error |-> "none"]

\* The object Generator() constructs.
NoGenerator == [filtered_values |-> <<>>, window_bounds |-> None,
                strict |-> TRUE]

NoQuery == [op |-> "none", targets |-> {}]

NoResult == [ok |-> TRUE, error |-> "none", value |-> <<>>, dist |-> EmptyDist]

Init ==
    /\ net \in Networks
    /\ pc = "idle"
    /\ strict = TRUE
    /\ given = <<>>
    /\ evidence = <<>>
    /\ query = NoQuery
    /\ result = NoResult
    /\ call = NoCall
    /\ ret = NoRet
    /\ generator = NoGenerator
    /\ open_files = 0
    /\ ancestors_by_name = precomputed_ancestors(net)
    /\ threads = NoThreads

\* build_evidence on the compiled evidence ev.
BuildEvidence(ev, s) ==
    /\ pc = "idle"
    /\ LET b == build_evidence(net, ev, s)
       IN  /\ pc' = IF b.raised THEN "raised" ELSE "built"
           /\ evidence' = b.evidence
           /\ result' = IF b.raised
                        THEN [NoResult EXCEPT !.ok = FALSE,
                                              !.error = "RestrictiveConstraints"]
                        ELSE NoResult
    /\ strict' = s
    /\ given' = ev
    /\ query' = NoQuery
    /\ UNCHANGED net
    /\ UNCHANGED <<api_vars, thread_vars>>

\* NETWORK.trace(target, evidence)
Trace(t) ==
    /\ pc = "built"
    /\ pc' = "done"
    /\ query' = [op |-> "trace", targets |-> {t}]
    /\ result' = [NoResult EXCEPT !.dist = trace(net, t, evidence)]
    /\ UNCHANGED <<net, strict, given, evidence>>
    /\ UNCHANGED <<api_vars, thread_vars>>

\* NETWORK.generate_consistent_sample(evidence)
GenerateFull ==
    /\ pc = "built"
    /\ pc' = "done"
    /\ query' = [op |-> "generate", targets |-> {}]
    /\ \E o \in generate_consistent_sample(net, evidence) :
          result' = [ok |-> o.ok, error |-> o.error, value |-> o.value,
                     dist |-> EmptyDist]
    /\ UNCHANGED <<net, strict, given, evidence>>
    /\ UNCHANGED <<api_vars, thread_vars>>

\* NETWORK.generate_certain_nodes(evidence, target_roots)
GenerateTargets(ts) ==
    /\ pc = "built"
    /\ pc' = "done"
    /\ query' = [op |-> "generate_certain_nodes", targets |-> ts]
    /\ \E o \in generate_certain_nodes(net, evidence, ts) :
          result' = [ok |-> o.ok, error |-> o.error, value |-> o.value,
                     dist |-> EmptyDist]
    /\ UNCHANGED <<net, strict, given, evidence>>
    /\ UNCHANGED <<api_vars, thread_vars>>

\* The call returns or raises to its caller; the per-call state is dropped.
Return ==
    /\ pc \in {"raised", "done"}
    /\ pc' = "idle"
    /\ strict' = TRUE
    /\ given' = <<>>
    /\ evidence' = <<>>
    /\ query' = NoQuery
    /\ result' = NoResult
    /\ UNCHANGED net
    /\ UNCHANGED <<api_vars, thread_vars>>

Next ==
    \/ \E ev \in EvidenceMaps(net), s \in BOOLEAN : BuildEvidence(ev, s)
    \/ \E t \in Nodes(net) : Trace(t)
    \/ GenerateFull
    \/ \E ts \in TargetSets(net) : GenerateTargets(ts)
    \/ Return

Spec == Init /\ [][Next]_vars

----------------------------------------------------------------------------
(* The functions of utils.py, each called on its own.                      *)

InitUtils ==
    /\ net \in NamedNetworks
    /\ pc = "idle"
    /\ strict = TRUE
    /\ given = <<>>
    /\ evidence = <<>>
    /\ query = NoQuery
    /\ result = NoResult
    /\ call = NoCall
    /\ ret = NoRet
    /\ generator = NoGenerator
    /\ open_files = 0
    /\ ancestors_by_name = precomputed_ancestors(net)
    /\ threads = NoThreads

\* build_evidence(conditions, evidence, strict)
BuildEvidenceCall(conditions, inherited, s) ==
    /\ call = NoCall
    /\ call' = [op |-> "build_evidence", conditions |-> conditions,
                evidence |-> inherited, strict |-> s]
    /\ ret' = compile_evidence(net, conditions, inherited, s)
    /\ UNCHANGED <<engine_vars, generator, open_files, thread_vars>>

\* _lookup_root_possibilities(key, nested_keys=[], casefold=fold)
LookupRootPossibilities(key, fold) ==
    /\ call = NoCall
    /\ call' = [op |-> "_lookup_root_possibilities", key |-> key,
                casefold |-> fold]
    /\ ret' = lookup_root_possibilities(net, key, fold)
    /\ UNCHANGED <<engine_vars, generator, open_files, thread_vars>>

\* tuple(_find_roots(targets))
FindRoots(targets) ==
    /\ call = NoCall
    /\ call' = [op |-> "_find_roots", targets |-> targets]
    /\ ret' = find_roots(net, targets)
    /\ UNCHANGED <<engine_vars, generator, open_files, thread_vars>>

\* _make_output_dict(data, flatten)
MakeOutputDict(data, flatten) ==
    /\ call = NoCall
    /\ call' = [op |-> "_make_output_dict", data |-> data,
                flatten |-> flatten]
    /\ ret' = make_output_dict(net, data, flatten)
    /\ UNCHANGED <<engine_vars, generator, open_files, thread_vars>>

\* The call returns or raises to its caller.
CallReturn ==
    /\ call # NoCall
    /\ call' = NoCall
    /\ ret' = NoRet
    /\ UNCHANGED <<engine_vars, generator, open_files, thread_vars>>

NextUtils ==
    \/ \E c \in Conditions, e \in InheritedEvidence(net), s \in BOOLEAN :
          BuildEvidenceCall(c, e, s)
    \/ \E k \in ConstraintKeys, fold \in BOOLEAN :
          LookupRootPossibilities(k, fold)
    \/ \E ts \in TargetLists : FindRoots(ts)
    \/ \E d \in SamplerOutputs(net), f \in BOOLEAN : MakeOutputDict(d, f)
    \/ CallReturn

SpecUtils == InitUtils /\ [][NextUtils]_vars

----------------------------------------------------------------------------
(* The Generator object and its calls.                                     *)

InitGenerator ==
    /\ net = NetWindow
    /\ pc = "idle"
    /\ strict = TRUE
    /\ given = <<>>
    /\ evidence = <<>>
    /\ query = NoQuery
    /\ result = NoResult
    /\ call = NoCall
    /\ ret = NoRet
    /\ generator = NoGenerator
    /\ open_files = 0
    /\ ancestors_by_name = precomputed_ancestors(net)
    /\ threads = NoThreads

\* Generator(constraints, window_bounds=bounds, strict=s), lines 57-85: the
\* new object replaces the one in use unless the constructor raises.
GeneratorInit(constraints, bounds, s) ==
    /\ call = NoCall
    /\ call' = [op |-> "__init__", constraints |-> constraints,
                window_bounds |-> bounds, strict |-> s]
    /\ LET built == build_constraints(net, constraints, <<>>)
       IN  /\ ret' = [ok |-> built.ok, error |-> built.error]
           /\ generator' = IF built.ok
                           THEN [filtered_values |-> built.filtered_values,
                                 window_bounds |-> bounds, strict |-> s]
                           ELSE generator
    /\ UNCHANGED <<engine_vars, open_files, thread_vars>>

\* generator.generate(constraints, window_bounds=bounds, strict=s,
\* target=target)
Generate(constraints, bounds, s, target) ==
    /\ call = NoCall
    /\ call' = [op |-> "generate", constraints |-> constraints,
                window_bounds |-> bounds, strict |-> s, target |-> target]
    /\ \E o \in generate_outcomes(net, generator, constraints, bounds, s,
                                   target) :
          /\ ret' = [ok |-> o.ok, error |-> o.error, sample |-> o.sample,
                     value |-> o.value]
          /\ generator' = [generator EXCEPT
                              !.filtered_values = o.filtered_values]
    /\ UNCHANGED <<engine_vars, open_files, thread_vars>>

\* The call returns or raises to its caller; the object stays.
GeneratorReturn ==
    /\ call # NoCall
    /\ call' = NoCall
    /\ ret' = NoRet
    /\ UNCHANGED <<engine_vars, generator, open_files, thread_vars>>

NextGenerator ==
    \/ \E c \in GeneratorConstraints, b \in WindowBoundsChoices,
          s \in BOOLEAN : GeneratorInit(c, b, s)
    \/ \E c \in GeneratorConstraints, b \in WindowBoundsChoices,
          s \in StrictChoices, t \in GeneratorTargets : Generate(c, b, s, t)
    \/ GeneratorReturn

SpecGenerator == InitGenerator /\ [][NextGenerator]_vars

----------------------------------------------------------------------------
(* The value store and its lookups.                                        *)

InitUnpacker ==
    /\ net = NetWindow
    /\ pc = "idle"
    /\ strict = TRUE
    /\ given = <<>>
    /\ evidence = <<>>
    /\ query = NoQuery
    /\ result = NoResult
    /\ call = NoCall
    /\ ret = NoRet
    /\ generator = NoGenerator
    /\ open_files = 0
    /\ ancestors_by_name = precomputed_ancestors(net)
    /\ threads = NoThreads

\* lookup_value(index)
LookupValue(index) ==
    /\ call = NoCall
    /\ open_files < MaxOpenFiles
    /\ call' = [op |-> "lookup_value", index |-> index]
    /\ LET r == lookup_value(index)
       IN  /\ ret' = [ok |-> r.ok, error |-> r.error, value |-> r.value]
           /\ open_files' = open_files + r.left_open
    /\ UNCHANGED <<engine_vars, generator, thread_vars>>

\* lookup_value_list(index_list)
LookupValueList(index_list) ==
    /\ call = NoCall
    /\ open_files < MaxOpenFiles
    /\ call' = [op |-> "lookup_value_list", index_list |-> index_list]
    /\ LET r == lookup_value_list(index_list)
       IN  /\ ret' = [ok |-> r.ok, error |-> r.error, value |-> r.value,
                      reads |-> r.reads]
           /\ open_files' = open_files + r.left_open
    /\ UNCHANGED <<engine_vars, generator, thread_vars>>

\* The call returns or raises to its caller.
LookupReturn ==
    /\ call # NoCall
    /\ call' = NoCall
    /\ ret' = NoRet
    /\ UNCHANGED <<engine_vars, generator, open_files, thread_vars>>

NextUnpacker ==
    \/ \E t \in StoreTokens : LookupValue(t)
    \/ \E ts \in TokenLists : LookupValueList(ts)
    \/ LookupReturn

SpecUnpacker == InitUnpacker /\ [][NextUnpacker]_vars

----------------------------------------------------------------------------
(* utils._merge_dicts called on its own.                                   *)

\* _merge_dicts(dict_list, sort)
MergeDicts(dict_list, sort) ==
    /\ call = NoCall
    /\ call' = [op |-> "_merge_dicts", dict_list |-> dict_list,
                sort |-> sort]
    /\ ret' = [ok |-> TRUE, error |-> "none",
               value |-> merge_dicts(dict_list, sort)]
    /\ UNCHANGED <<engine_vars, generator, open_files, thread_vars>>

NextMerge ==
    \/ \E dict_list \in DictLists, sort \in BOOLEAN :
          MergeDicts(dict_list, sort)
    \/ CallReturn

SpecMerge == InitUtils /\ [][NextMerge]_vars

----------------------------------------------------------------------------
(* Threads that query the shared network side by side.                     *)

InitThreads ==
    /\ net \in ThreadNetworks
    /\ pc = "idle"
    /\ strict = TRUE
    /\ given = <<>>
    /\ evidence = <<>>
    /\ query = NoQuery
    /\ result = NoResult
    /\ call = NoCall
    /\ ret = NoRet
    /\ generator = NoGenerator
    /\ open_files = 0
    /\ ancestors_by_name = precomputed_ancestors(net)
    /\ threads = NoThreads

\* Some other thread is in the middle of a query.
Overlap(th) ==
    \E other \in Threads \ {th} : threads[other].pc \notin {"idle", "done"}

\* A thread calls NETWORK.trace(t, ev): lines 229-247.
TraceStart(th, t, ev) ==
    /\ threads[th].pc = "idle"
    /\ LET s == trace_setup(net, ancestors_by_name, t, ev)
       IN  /\ threads' = [threads EXCEPT ![th] =
                  [IdleThread EXCEPT !.pc = "expanding", !.op = "trace",
                                     !.target = t, !.given = ev,
                                     !.evidence = ev, !.todo = s.ordered,
                                     !.beam = InitialBeam,
                                     !.overlapped = Overlap(th)]]
           /\ ancestors_by_name' = s.memo
    /\ UNCHANGED <<engine_vars, api_vars>>

\* One iteration of the loop of lines 249-292.
TraceExpand(th) ==
    /\ threads[th].pc = "expanding"
    /\ threads[th].todo # <<>>
    /\ LET T    == threads[th]
           step == trace_expand(net, Head(T.todo), T.evidence, T.beam)
           seen == T.overlapped \/ Overlap(th)
       IN  threads' = [threads EXCEPT ![th] =
               IF step.error # "none"
               THEN [T EXCEPT !.pc = "done", !.error = step.error,
                              !.overlapped = seen]
               ELSE IF step.expanded = <<>>
               THEN [T EXCEPT !.pc = "done", !.todo = Tail(T.todo),
                              !.expanded = <<>>, !.beam = <<>>,
                              !.overlapped = seen]
               ELSE [T EXCEPT !.todo = Tail(T.todo),
                              !.expanded = step.expanded,
                              !.beam = step.beam, !.overlapped = seen]]
    /\ UNCHANGED <<engine_vars, api_vars, ancestors_by_name>>

\* Lines 294-305: the target distribution is returned.
TraceFinish(th) ==
    /\ threads[th].pc = "expanding"
    /\ threads[th].todo = <<>>
    /\ threads' = [threads EXCEPT ![th] =
           [@ EXCEPT !.pc = "done",
                     !.dist = target_dist(threads[th].beam,
                                          threads[th].target),
                     !.overlapped = @ \/ Overlap(th)]]
    /\ UNCHANGED <<engine_vars, api_vars, ancestors_by_name>>

\* A thread calls NETWORK.generate_consistent_sample(ev): lines 82-84.
GenerateStart(th, ev) ==
    /\ threads[th].pc = "idle"
    /\ threads' = [threads EXCEPT ![th] =
           [IdleThread EXCEPT !.pc = "sampling", !.op = "generate",
                              !.given = ev, !.evidence = ev, !.cur = ev,
                              !.todo = nodes_in_sampling_order(net),
                              !.overlapped = Overlap(th)]]
    /\ UNCHANGED <<engine_vars, api_vars, ancestors_by_name>>

\* One iteration of the loop of lines 86-111.
GenerateNode(th) ==
    /\ threads[th].pc = "sampling"
    /\ threads[th].todo # <<>>
    /\ LET T    == threads[th]
           n    == Head(T.todo)
           s    == sampling_dist_from(net, ancestors_by_name, n, T.cur)
           seen == T.overlapped \/ Overlap(th)
       IN  /\ ancestors_by_name' = s.memo
           /\ IF s.error # "none" \/ IsEmptyDist(s.dist)
              THEN threads' = [threads EXCEPT ![th] =
                       [T EXCEPT !.pc = "done",
                                 !.error = IF s.error # "none" THEN s.error
                                           ELSE "StopIteration",
                                 !.overlapped = seen]]
              ELSE \E v \in Samples(s.dist) :
                       threads' = [threads EXCEPT ![th] =
                           [T EXCEPT !.pc = IF Tail(T.todo) = <<>>
                                            THEN "done" ELSE "sampling",
                                     !.todo = Tail(T.todo),
                                     !.value = (n :> v) @@ T.value,
                                     !.cur = EvSet(T.cur, n, {v}),
                                     !.overlapped = seen]]
    /\ UNCHANGED <<engine_vars, api_vars>>

\* A thread calls NETWORK.validate_evidence(ev): lines 169-173.
ValidateStart(th, ev) ==
    /\ threads[th].pc = "idle"
    /\ threads' = [threads EXCEPT ![th] =
           [IdleThread EXCEPT !.pc = IF Len(ev) <= 1 THEN "done"
                                     ELSE "validating",
                              !.op = "validate_evidence",
                              !.given = ev, !.evidence = ev,
                              !.todo = IF Len(ev) <= 1 THEN <<>>
                                       ELSE [i \in DOMAIN ev |-> i],
                              !.overlapped = Overlap(th)]]
    /\ UNCHANGED <<engine_vars, api_vars, ancestors_by_name>>

\* One iteration of the loop of lines 173-200.
ValidateEntry(th) ==
    /\ threads[th].pc = "validating"
    /\ threads[th].todo # <<>>
    /\ LET T    == threads[th]
           i    == Head(T.todo)
           c    == entry_check(net, ancestors_by_name, T.evidence, i)
           seen == T.overlapped \/ Overlap(th)
       IN  /\ ancestors_by_name' = c.memo
           /\ threads' = [threads EXCEPT ![th] =
                  [T EXCEPT !.pc = IF c.error # "none" \/ c.raises
                                      \/ Tail(T.todo) = <<>>
                                   THEN "done" ELSE "validating",
                            !.error = IF c.error # "none" THEN c.error
                                      ELSE IF c.raises
                                      THEN "RestrictiveConstraints"
                                      ELSE "none",
                            !.target = T.evidence[i][1],
                            !.beam = c.beam,
                            !.todo = Tail(T.todo),
                            !.overlapped = seen]]
    /\ UNCHANGED <<engine_vars, api_vars>>

\* The query returns or raises to the thread's caller.
ThreadReturn(th) ==
    /\ threads[th].pc = "done"
    /\ threads' = [threads EXCEPT ![th] = IdleThread]
    /\ UNCHANGED <<engine_vars, api_vars, ancestors_by_name>>

NextThreads ==
    \E th \in Threads :
        \/ \E t \in Nodes(net), ev \in ThreadEvidence(net) :
              TraceStart(th, t, ev)
        \/ TraceExpand(th)
        \/ TraceFinish(th)
        \/ \E ev \in ThreadEvidence(net) : GenerateStart(th, ev)
        \/ GenerateNode(th)
        \/ \E ev \in ThreadEvidence(net) : ValidateStart(th, ev)
        \/ ValidateEntry(th)
        \/ ThreadReturn(th)

SpecThreads == InitThreads /\ [][NextThreads]_vars

----------------------------------------------------------------------------
(* Calls of sample_value_from_distribution on its own *)

\* Distributions in iteration order, among them ones with entries of
\* probability zero and ones whose probabilities sum to less than one.
SampledDistributions ==
    {EmptyDist} \cup
    UNION { {[keys |-> keys, num |-> num, den |-> Denom] :
                num \in {f \in [Range(keys) -> {0, 3, 4, 6}] :
                            SumSeq([i \in DOMAIN keys |-> f[keys[i]]])
                               <= Denom}} :
            keys \in {<<T1>>, <<T1, T2>>, <<T2, T1, T3>>} }

\* Lines 311-318 with random.random() = anchor / Denom; next(iter(...)) of
\* an empty distribution raises StopIteration.
SampleValue(d, anchor) ==
    /\ call = NoCall
    /\ call' = [op |-> "sample_value_from_distribution",
                distribution |-> d, anchor |-> anchor]
    /\ ret' = IF IsEmptyDist(d)
              THEN [ok |-> FALSE, error |-> "StopIteration"]
              ELSE [ok |-> TRUE, error |-> "none",
                    value |-> sample_value_from_distribution(d, anchor)]
    /\ UNCHANGED <<engine_vars, generator, open_files, thread_vars>>

NextSampler ==
    \/ \E d \in SampledDistributions, anchor \in 0 .. (Denom - 1) :
          SampleValue(d, anchor)
    \/ CallReturn

SpecSampler == InitUtils /\ [][NextSampler]_vars

----------------------------------------------------------------------------
(* Claims *)

Generated == query.op \in {"generate", "generate_certain_nodes"}

\* C1 (as claimed): in strict mode, a call whose compiled evidence is jointly
\* infeasible ends in RestrictiveConstraints, raised by build_evidence or by
\* the trace or generate that follows; it returns no distribution and no
\* sample.
C1_InfeasibleStrictRaises ==
    (strict /\ pc \in {"raised", "done"} /\ ~Feasible(net, given))
        => (~result.ok /\ result.error = "RestrictiveConstraints")

\* C2: every value returned by generate_consistent_sample or
\* generate_certain_nodes for a node with an entry in the evidence is one of
\* the tokens of that entry.
C2_ConstraintReachability ==
    (pc = "done" /\ Generated /\ result.ok)
        => \A n \in DOMAIN result.value :
              EvHas(evidence, n) => result.value[n] \in EvGet(evidence, n)

\* C2 witness: a sample was returned for a node whose evidence entry leaves
\* out some of its possible values and holds more than one token.
C2_Witness ==
    /\ pc = "done" /\ Generated /\ result.ok
    /\ \E n \in DOMAIN result.value :
          /\ EvHas(evidence, n)
          /\ Cardinality(EvGet(evidence, n)) > 1
          /\ EvGet(evidence, n) # Range(net.possible_values[n])

NothingPruned(t) ==
    /\ ~trace_run(net, t, evidence).pruned
    /\ ~generate_prunes(net, evidence)

Traced(t) == pc = "done" /\ query.op = "trace" /\ query.targets = {t}

\* C4: the distribution returned by trace is empty, or all its probabilities
\* are positive and they sum to 1.
C4_MarginalNormalization ==
    \A t \in Nodes(net) :
        Traced(t) =>
            LET d == result.dist
            IN  \/ IsEmptyDist(d)
                \/ /\ \A v \in Range(d.keys) : d.num[v] > 0
                   /\ SumSeq([i \in DOMAIN d.keys |-> d.num[d.keys[i]]]) = d.den

\* C4 witness: a trace under evidence pruned its beam and returned a
\* distribution over several tokens.
C4_Witness ==
    \E t \in Nodes(net) :
        /\ Traced(t)
        /\ evidence # <<>>
        /\ trace_run(net, t, evidence).pruned
        /\ Len(result.dist.keys) > 1

\* C5 (as claimed): trace(t, {t: {v}}) returns exactly {v: 1.0} for every
\* possible value v of t.
C5_ConditioningIdempotence ==
    \A t \in Nodes(net) : \A v \in Range(net.possible_values[t]) :
        (Traced(t) /\ evidence = << <<t, {v}>> >>)
            => /\ result.dist.keys = <<v>>
               /\ result.dist.num[v] = result.dist.den

\* C6: when no expansion step of trace(t, E) exceeds BEAM_WIDTH, the returned
\* distribution is the conditional marginal of t given the evidence obtained
\* from the joint distribution of all nodes: it holds exactly the tokens of
\* positive mass, each with its mass divided by the mass of the evidence.
C6_ExactWithoutPruning ==
    \A t \in Nodes(net) :
        (Traced(t) /\ ~trace_run(net, t, evidence).pruned)
            => \A v \in Range(net.possible_values[t]) :
                  /\ v \in Range(result.dist.keys)
                        <=> ExactMass(net, t, evidence, v) > 0
                  /\ DistGet(result.dist, v) * ExactTotal(net, evidence)
                        = ExactMass(net, t, evidence, v) * result.dist.den

\* C6 witness: an unpruned trace under evidence on a node that is neither the
\* target nor one of its ancestors returned several tokens.
C6_Witness ==
    \E t \in Nodes(net) :
        /\ Traced(t)
        /\ ~trace_run(net, t, evidence).pruned
        /\ EvKeys(evidence) \ (get_all_ancestors(net, t) \cup {t}) # {}
        /\ Len(result.dist.keys) > 1

\* C7 (as claimed): the values a targeted sample returns for its targets are
\* jointly consistent: some joint assignment of positive probability that
\* satisfies the evidence gives every target its returned value.
C7_TargetsJointlyConsistent ==
    (pc = "done" /\ query.op = "generate_certain_nodes" /\ result.ok)
        => \E a \in Assignments(net) :
              /\ Consistent(a, evidence)
              /\ JointWeight(net, a) > 0
              /\ \A t \in query.targets : a[t] = result.value[t]

\* C8 (as claimed): for evidence accepted by validate_evidence,
\* generate_consistent_sample returns a value of possible_values for every
\* node of the network and never fails.
C8_FullSampleComplete ==
    (pc = "done" /\ query.op = "generate" /\ ~validate_evidence(net, evidence))
        => /\ result.ok
           /\ DOMAIN result.value = Nodes(net)
           /\ \A n \in Nodes(net) :
                 result.value[n] \in Range(net.possible_values[n])

\* C9 (as claimed): when build_evidence returns in non-strict mode, the
\* evidence is empty or a further validate_evidence on it raises nothing.
C9_RelaxedUntilFeasible ==
    (pc = "built" /\ ~strict)
        => (evidence = <<>> \/ ~validate_evidence(net, evidence))

----------------------------------------------------------------------------
(* Claims on the evidence compiler (SpecUtils) *)

BuildEvidenceCalled == call.op = "build_evidence"

\* The flat (key, value) items of the conditions of the call in progress.
FlatConditions == flatten_conditions(call.conditions, TRUE)

\* The loop of build_evidence gets as far as the i-th flat key.
KeyReached(i) ==
    compile_keys(net, SubSeq(FlatConditions, 1, i - 1), call.evidence).ok

\* The token set that matching the i-th flat key's constraint against its
\* root's possible values yields.
MatchedTokens(i) ==
    LET root == resolve_key(net, FlatConditions[i][1])
    IN  match_values(root.possible_values, root.nested_keys,
                     tupilize(FlatConditions[i][2]), {}).tokens

\* C11 (as claimed): whenever matching a flat key's constraint against its
\* root node's possible values yields an empty token set, build_evidence
\* raises InvalidConstraints.
C11_EmptyMatchRaises ==
    (BuildEvidenceCalled
       /\ \E i \in DOMAIN FlatConditions :
             /\ KeyReached(i)
             /\ resolve_key(net, FlatConditions[i][1]).ok
             /\ MatchedTokens(i) = {})
        => (~ret.ok /\ ret.error = "InvalidConstraints")

\* The key and each of its dotted prefixes, longest first.
DottedPrefixes(key) ==
    {SubSeq(key, 1, n) : n \in {m \in 1 .. Len(key) :
                                  m = Len(key) \/ key[m + 1] = "."}}

\* Neither the key nor any of its dotted prefixes names a node, names
\* compared case-insensitively.
Unresolvable(key) ==
    \A prefix \in DottedPrefixes(key) :
        \A n \in DOMAIN net.names : casefold(net.names[n]) # casefold(prefix)

\* The loop of build_evidence reaches a flat key that is unresolvable.
ReachesUnresolvable ==
    /\ BuildEvidenceCalled
    /\ \E i \in DOMAIN FlatConditions :
          KeyReached(i) /\ Unresolvable(FlatConditions[i][1])

\* C12 (as claimed): a constraint key for which neither the key nor any of
\* its dotted prefixes names a node is rejected by build_evidence with
\* InvalidConstraints.
C12_UnresolvableRaisesInvalidConstraints ==
    ReachesUnresolvable => (~ret.ok /\ ret.error = "InvalidConstraints")

\* C12 (amended): such a key, when the loop of build_evidence reaches it, is
\* rejected with InvalidNode, raised at that key.
C12_UnresolvableRaisesInvalidNode ==
    ReachesUnresolvable
        => /\ ~ret.ok
           /\ ret.error = "InvalidNode"
           /\ Unresolvable(ret.key)

\* C12 witness: a mapping of two keys whose first key was compiled and whose
\* second key, a dotted one, is unresolvable.
C12_Witness ==
    /\ ReachesUnresolvable
    /\ Len(FlatConditions) = 2
    /\ ~Unresolvable(FlatConditions[1][1])
    /\ Cardinality(DottedPrefixes(FlatConditions[2][1])) > 1
    /\ ~ret.ok

\* C13 (as claimed): after build_evidence returns normally, every entry of
\* the evidence map is keyed by a node's original-case name and holds a
\* non-empty set of tokens of that node's possible_values.
C13_EvidenceWellFormed ==
    (BuildEvidenceCalled /\ ret.ok)
        => \A i \in DOMAIN ret.evidence :
              \E n \in DOMAIN net.names :
                  /\ ret.evidence[i][1] = net.names[n]
                  /\ ret.evidence[i][2] # {}
                  /\ ret.evidence[i][2] \subseteq Range(net.possible_values[n])

----------------------------------------------------------------------------
(* Claims on path resolution (SpecUtils) *)

\* The name is a node's name, compared case-insensitively.
NamesNode(name) ==
    \E n \in DOMAIN net.names : casefold(net.names[n]) = casefold(name)

RootLookupCalled == call.op = "_lookup_root_possibilities"

\* The dotted prefixes of the key, shorter than the key, that name a node.
PrefixRoots(key) == {p \in DottedPrefixes(key) \ {key} : NamesNode(p)}

\* C16: for a flat key that is not itself a node name,
\* _lookup_root_possibilities fails when no dotted prefix names a node and
\* otherwise returns the longest dotted prefix that names a node, with one
\* segment for each dot stripped, in left-to-right order: root + '.' + the
\* segments joined by '.' is the key.
C16_LongestPrefixRoot ==
    (RootLookupCalled /\ ~NamesNode(call.key))
        => IF PrefixRoots(call.key) = {}
           THEN ~ret.ok /\ ret.error = "InvalidNode"
           ELSE /\ ret.ok
                /\ ret.key \in PrefixRoots(call.key)
                /\ \A p \in PrefixRoots(call.key) : Len(p) <= Len(ret.key)
                /\ \A i \in DOMAIN ret.nested_keys :
                      Dots(ret.nested_keys[i]) = {}
                /\ ret.key \o <<".">> \o join(ret.nested_keys) = call.key

\* C16 witness: two segments were stripped to reach the root, and a shorter
\* prefix of the key names a node as well.
C16_Witness ==
    /\ RootLookupCalled /\ ~NamesNode(call.key)
    /\ ret.ok
    /\ Len(ret.nested_keys) = 2
    /\ ret.nested_keys[1] # ret.nested_keys[2]
    /\ Cardinality(PrefixRoots(call.key)) = 2

FindRootsCalled == call.op = "_find_roots"

\* The node a name resolves to through the case-insensitive name index.
Resolved(name) ==
    CHOOSE n \in DOMAIN net.names : casefold(net.names[n]) = casefold(name)

\* The nodes _find_roots is to yield for one target, in network order.
ExpectedRoots(target) ==
    IF NamesNode(target) THEN <<Resolved(target)>>
    ELSE IF PrefixRoots(target) # {}
    THEN <<Resolved(CHOOSE p \in PrefixRoots(target) :
                      \A q \in PrefixRoots(target) : Len(q) <= Len(p))>>
    ELSE LET segment == casefold(split(target)[1])
         IN  SortedSeq({n \in DOMAIN net.names :
                 \/ casefold(net.names[n]) = segment
                 \/ startswith(casefold(net.names[n]), segment \o <<".">>)})

RECURSIVE ExpectedRootsOfAll(_)
ExpectedRootsOfAll(targets) ==
    IF targets = <<>> THEN <<>>
    ELSE ExpectedRoots(Head(targets)) \o ExpectedRootsOfAll(Tail(targets))

\* C17: _find_roots yields for each target, in order, the target when it
\* names a node, else its longest dotted prefix that names a node, else
\* every node named by the first segment or by that segment followed by
\* '.' and a rest, and no other node; each yielded name resolves to its
\* node.  It raises exactly when some target has no such node.
C17_FindRootsYields ==
    FindRootsCalled
        => /\ ret.ok <=> \A i \in DOMAIN call.targets :
                            ExpectedRoots(call.targets[i]) # <<>>
           /\ ret.ok => /\ \A j \in DOMAIN ret.nodes : NamesNode(ret.nodes[j])
                        /\ [j \in DOMAIN ret.nodes |-> Resolved(ret.nodes[j])]
                              = ExpectedRootsOfAll(call.targets)

\* C17 witness: a single target that names no node yielded the two nodes
\* below it, while a third node shares its leading characters.
C17_Witness ==
    /\ FindRootsCalled /\ ret.ok
    /\ Len(call.targets) = 1
    /\ ~NamesNode(call.targets[1])
    /\ Len(ret.nodes) = 2
    /\ \E n \in DOMAIN net.names :
          /\ startswith(casefold(net.names[n]), casefold(call.targets[1]))
          /\ \A j \in DOMAIN ret.nodes : ret.nodes[j] # net.names[n]

----------------------------------------------------------------------------
(* Claims on the output dictionary (SpecUtils) *)

MakeOutputDictCalled == call.op = "_make_output_dict"

\* C18 (as claimed): _make_output_dict without flatten returns a dictionary
\* from which, for every (root name, token) of the sampler output,
\* _reassemble_targets with the root name as target gives back the root's
\* decoded value: the path of the name split on '.' leads to it.
C18_PathRoundTrip ==
    (MakeOutputDictCalled /\ ~call.flatten)
        => /\ ret.ok
           /\ \A i \in DOMAIN call.data :
                 LET name  == call.data[i][1]
                     found == reassemble_targets(<<name>>, ret.value)
                 IN  /\ found.ok
                     /\ found.value
                          = << <<name, net.values[call.data[i][2]]>> >>

----------------------------------------------------------------------------
(* Claims on the Generator object (SpecGenerator) *)

\* C14 (as claimed): Generator.generate never modifies the evidence cached
\* on the Generator object; whatever the arguments of the call and whether
\* it returns or raises, the stored filtered_values stay as they were.
C14_GenerateKeepsCache ==
    [][call'.op = "generate"
          => generator'.filtered_values = generator.filtered_values]_vars

\* The keys under which the call-site constraints of the call in progress
\* store their tokens.
CallSiteKeys ==
    LET built == build_constraints(net, call.constraints, <<>>)
    IN  {built.filtered_values[i][1] : i \in DOMAIN built.filtered_values}

\* C15 (as claimed): a full sample that generate returns for a call with
\* call-site constraints obeys the cached evidence as well: a node
\* constrained in the constructor and not at the call site has one of its
\* cached tokens.
C15_CallSiteMergesCache ==
    (call.op = "generate" /\ call.constraints # <<>> /\ call.target = None
       /\ ret.ok)
        => \A i \in DOMAIN generator.filtered_values :
              LET key == generator.filtered_values[i][1]
              IN  key \notin CallSiteKeys
                    => \E n \in DOMAIN net.names :
                          /\ net.names[n] = key
                          /\ ret.sample[n]
                               \in Range(generator.filtered_values[i][2])

----------------------------------------------------------------------------
(* Claims on the value store (SpecUnpacker) *)

LookupListCalled == call.op = "lookup_value_list"

\* C19: lookup_value_list returns exactly when lookup_value returns for
\* each token of the list; the result has the length of the list, its
\* i-th element is what lookup_value returns for the i-th token, and one
\* read was made for each token, in non-decreasing index order.
C19_ListMatchesSingleLookups ==
    LookupListCalled
        => /\ ret.ok <=> \A i \in DOMAIN call.index_list :
                            lookup_value(call.index_list[i]).ok
           /\ ret.ok
                => /\ Len(ret.value) = Len(call.index_list)
                   /\ \A i \in DOMAIN call.index_list :
                         ret.value[i] = lookup_value(call.index_list[i]).value
                   /\ Len(ret.reads) = Len(call.index_list)
                   /\ \A j, k \in DOMAIN ret.reads :
                         j <= k => ret.reads[j] <= ret.reads[k]

\* C19 witness: a list of three tokens, not in index order and with one
\* token twice, was looked up.
C19_Witness ==
    /\ LookupListCalled /\ ret.ok
    /\ Len(call.index_list) = 3
    /\ call.index_list[1] = call.index_list[3]
    /\ ret.value[1] # ret.value[2]
    /\ base85_to_int(call.index_list[2]).value
          < base85_to_int(call.index_list[1]).value

\* C20 (as claimed): every handle opened by lookup_value or
\* lookup_value_list is closed when the call returns or raises; no handle
\* is open after any sequence of lookups.
C20_NoHandleLeftOpen == open_files = 0

----------------------------------------------------------------------------
(* Claims on collapsed beams and on the consistency of samples (Spec) *)

\* C24 (as claimed): a query one of whose beams collapses ends in
\* RestrictiveConstraints: a trace whose beam collapsed returns no
\* distribution as a normal result, a targeted sample does not return, and
\* no empty distribution is handed to sample_value_from_distribution.
C24_CollapseIsReported ==
    /\ \A t \in Nodes(net) :
          (Traced(t) /\ trace_run(net, t, evidence).collapsed # 0)
              => (~result.ok /\ result.error = "RestrictiveConstraints")
    /\ (pc = "done" /\ query.op = "generate_certain_nodes"
           /\ \E t \in query.targets :
                 trace_run(net, t, evidence).collapsed # 0)
          => (~result.ok /\ result.error = "RestrictiveConstraints")
    /\ (pc = "done" /\ query.op = "generate")
          => result.error # "StopIteration"

\* C30 (as claimed): in every full sample each node's value has positive
\* probability in the CPT row selected by the sampled values of its
\* parents, or that row is missing.
C30_SampleHasPositiveProbability ==
    (pc = "done" /\ query.op = "generate" /\ result.ok)
        => \A n \in Nodes(net) : NodeWeight(net, n, result.value) > 0

----------------------------------------------------------------------------
(* Claims on the inference paths of trace.py (Spec) *)

\* Two distributions give every token the same probability.
SameDist(d, e) ==
    /\ Range(d.keys) = Range(e.keys)
    /\ \A v \in Range(d.keys) : d.num[v] * e.den = e.num[v] * d.den

\* Some relevant node of the query has a parent path without a CPT row.
MissingParentPath(t) ==
    \E n \in get_ancestors_and_target(net, t) :
        \E a \in Assignments(net) :
            DOMAIN get_probabilities_given_known_values(net, n, a) = {}

\* C23 (as claimed): on a network with a missing parent path, for a query
\* whose evidence lies on the target and its ancestors and that
\* BayesianNetwork.trace answers with a distribution, _exact_inference and
\* _beam_search_inference return the same distribution as
\* BayesianNetwork.trace, and get_distribution_for_node uses the same row
\* as trace.
C23_SameFallbackEverywhere ==
    \A t \in Nodes(net) :
        (/\ Traced(t)
         /\ MissingParentPath(t)
         /\ EvKeys(evidence) \subseteq get_ancestors_and_target(net, t)
         /\ ~trace_run(net, t, evidence).pruned
         /\ ~IsEmptyDist(result.dist))
            => /\ SameDist(result.dist, exact_inference(net, t, evidence))
               /\ SameDist(result.dist,
                           beam_search_inference(net, t, evidence))
               /\ \A a \in Assignments(net) :
                     get_distribution_for_node(net, t, a)
                         = cpt_or_uniform(net, t, a)

----------------------------------------------------------------------------
(* Claims on merging (SpecMerge) *)

MergeDictsCalled == call.op = "_merge_dicts"

\* The elements of the lists among vs together with the items of vs that
\* are no lists.
Flattened(vs) ==
    UNION {IF vs[i][1] = "list" THEN Range(vs[i][2]) ELSE {vs[i]} :
              i \in DOMAIN vs}

\* merged is what the claim asks of the merge of dict_list: the union of
\* the key sets, and under each key the merge of the dicts, or a list
\* without repeats holding exactly the values found.
RECURSIVE IsMergeOf(_, _)
IsMergeOf(merged, dict_list) ==
    /\ merged[1] = "dict"
    /\ DOMAIN merged[2]
          = UNION {DOMAIN dict_list[i][2] : i \in DOMAIN dict_list}
    /\ \A key \in DOMAIN merged[2] :
          LET values == values_at(dict_list, key)
              leaf   == merged[2][key]
          IN  IF \A i \in DOMAIN values : values[i][1] = "dict"
              THEN IsMergeOf(leaf, values)
              ELSE /\ leaf[1] = "list"
                   /\ Cardinality(Range(leaf[2])) = Len(leaf[2])
                   /\ Range(leaf[2])
                         = IF \A i \in DOMAIN values : values[i][1] = "list"
                           THEN Flattened(values)
                           ELSE Range(values)

\* C21: _merge_dicts returns a dict whose keys are the union of the
\* inputs' keys; under a key where every input holds a dict it holds their
\* merge, where every input holds a list it holds each element of those
\* lists once, and otherwise it holds each value found once.
C21_MergeIsDedupedUnion ==
    MergeDictsCalled => IsMergeOf(ret.value, call.dict_list)

\* C21 witness: dicts with different key sets, a shared nested dict and
\* lists with a common element were merged.
C21_Witness ==
    /\ MergeDictsCalled
    /\ Len(call.dict_list) > 1
    /\ DOMAIN call.dict_list[1][2] # DOMAIN call.dict_list[2][2]
    /\ \E key \in DOMAIN ret.value[2] :
          /\ ret.value[2][key][1] = "dict"
          /\ Len(values_at(call.dict_list, key)) > 1
    /\ \E key \in DOMAIN ret.value[2] :
          LET values == values_at(call.dict_list, key)
          IN  /\ Len(values) > 1
              /\ \A i \in DOMAIN values : values[i][1] = "list"
              /\ Len(ret.value[2][key][2])
                    < Len(Concat([i \in DOMAIN values |-> values[i][2]]))

----------------------------------------------------------------------------
(* Claims on keys that share a root (SpecUtils) *)

\* The name of the node the i-th flat key resolves to.
RootOf(i) ==
    net.names[node_named(net, resolve_key(net, FlatConditions[i][1]).key)]

\* The flat keys that resolve to the node named name.
KeysOf(name) == {i \in DOMAIN FlatConditions : RootOf(i) = name}

\* C28 (as claimed): after build_evidence returns, the evidence set of a
\* node that flat keys of the mapping resolve to holds exactly the tokens
\* that satisfy the constraint of every one of those keys.
C28_SharedRootKeepsAllConstraints ==
    (BuildEvidenceCalled /\ ret.ok)
        => \A e \in Range(ret.evidence) :
              KeysOf(e[1]) # {}
                  => e[2] = {t \in AllTokens(net) :
                               \A i \in KeysOf(e[1]) : t \in MatchedTokens(i)}

----------------------------------------------------------------------------
(* Claims on sampling from a distribution (SpecSampler) *)

SampleValueCalled == call.op = "sample_value_from_distribution"

\* The probability accumulated when the walk is at position i.
Cumulative(d, i) == SumSeq([j \in 1 .. i |-> d.num[d.keys[j]]])

\* C25 (as claimed): sample_value_from_distribution returns the first
\* value, in iteration order, whose cumulative probability is greater than
\* or equal to the drawn number, and the last value iterated when no
\* cumulative probability reaches it.
C25_FirstReachingOrLast ==
    (SampleValueCalled /\ ret.ok)
        => LET d     == call.distribution
               reach == {i \in DOMAIN d.keys :
                           Cumulative(d, i) >= call.anchor}
           IN  ret.value
                  = IF reach # {}
                    THEN d.keys[CHOOSE i \in reach :
                                   \A j \in reach : i <= j]
                    ELSE d.keys[Len(d.keys)]

----------------------------------------------------------------------------
(* Claims on queries that share the network (SpecThreads) *)

\* What the finished query of thread th returned or raised is an outcome
\* of the same query run alone on the network.
ReturnsAsAlone(th) ==
    LET T == threads[th]
    IN  CASE T.op = "trace" ->
               /\ T.error = "none"
               /\ T.dist = trace(net, T.target, T.given)
          [] T.op = "generate" ->
               (IF T.error = "none" THEN Success(T.value)
                ELSE Failure(T.error))
                  \in generate_consistent_sample(net, T.given)
          [] T.op = "validate_evidence" ->
               /\ T.error \in {"none", "RestrictiveConstraints"}
               /\ (T.error = "RestrictiveConstraints")
                     <=> validate_evidence(net, T.given)
          [] OTHER -> FALSE

\* C22: with queries of several threads interleaved on one network, the
\* memoized ancestor sets stay as construction left them, no query changes
\* the evidence mapping its caller passed, and every finished query
\* returned what it returns when run alone.
C22_QueriesDoNotInterfere ==
    /\ ancestors_by_name = precomputed_ancestors(net)
    /\ \A th \in Threads :
          /\ threads[th].evidence = threads[th].given
          /\ threads[th].pc = "done" => ReturnsAsAlone(th)

\* C22 witness: a generate and a trace with different evidence have both
\* finished after running interleaved with each other.
C22_Witness ==
    \E th, other \in Threads :
        /\ threads[th].pc = "done" /\ threads[other].pc = "done"
        /\ threads[th].op = "generate" /\ threads[other].op = "trace"
        /\ threads[th].overlapped /\ threads[other].overlapped
        /\ threads[th].error = "none"
        /\ threads[th].given # <<>>
        /\ threads[other].given # <<>>
        /\ threads[th].given # threads[other].given
        /\ ~IsEmptyDist(threads[other].dist)

\* The thread is inside the loop of trace, or has left it with a beam.
TraceHasBeam(th) ==
    /\ threads[th].op = "trace"
    /\ threads[th].pc \in {"expanding", "done"}
    /\ threads[th].beam # <<>>

\* C26: after the expansion of each node in trace the beam holds at most
\* BEAM_WIDTH entries, every entry has a joint probability above zero and
\* gives each evidence node processed so far one of its allowed tokens,
\* and when the expansion was pruned every kept entry weighs at least as
\* much as every discarded one.
C26_BeamAfterExpansion ==
    \A th \in Threads :
        TraceHasBeam(th)
            => LET T == threads[th]
               IN  /\ Len(T.beam) <= BEAM_WIDTH
                   /\ \A i \in DOMAIN T.beam :
                         /\ T.beam[i].p > 0
                         /\ \A n \in DOMAIN T.beam[i].a
                                      \cap EvKeys(T.evidence) :
                               T.beam[i].a[n] \in EvGet(T.evidence, n)
                   /\ Len(T.expanded) > BEAM_WIDTH
                         => /\ Range(T.beam) \subseteq Range(T.expanded)
                            /\ \A kept \in Range(T.beam) :
                                  \A cut \in Range(T.expanded)
                                              \ Range(T.beam) :
                                      kept.p >= cut.p

\* C26 witness: an expansion that had already passed an evidence node was
\* pruned, and an entry lighter than a kept one was discarded.
C26_Witness ==
    \E th \in Threads :
        /\ TraceHasBeam(th)
        /\ Len(threads[th].expanded) > BEAM_WIDTH
        /\ Len(threads[th].beam) = BEAM_WIDTH
        /\ DOMAIN threads[th].beam[1].a
               \cap EvKeys(threads[th].evidence) # {}
        /\ \E kept \in Range(threads[th].beam) :
              \E cut \in Range(threads[th].expanded)
                          \ Range(threads[th].beam) :
                  kept.p > cut.p

\* C27 (as claimed): in the trace that validate_evidence runs for a node,
\* every assignment of the beam gives a sibling with a single-token
\* evidence set that one token.
C27_FixedSiblingIsExact ==
    \A th \in Threads :
        (threads[th].op = "validate_evidence" /\ threads[th].beam # <<>>)
            => \A i \in DOMAIN threads[th].beam :
                  \A e \in Range(threads[th].evidence) :
                      (/\ e[1] # threads[th].target
                       /\ Cardinality(e[2]) = 1
                       /\ e[1] \in DOMAIN threads[th].beam[i].a)
                          => threads[th].beam[i].a[e[1]] \in e[2]

\* The thread is about to expand the next node of ordered_nodes.
AtExpansion(th) ==
    /\ threads[th].op = "trace"
    /\ threads[th].pc = "expanding"
    /\ threads[th].todo # <<>>

\* C29: when trace expands a node, every assignment of the beam holds a
\* value for each parent of the node, all assignments have the same keys,
\* none of them a node still to be expanded, and no query ends with the
\* KeyError of the parent lookup.
C29_ParentsAssignedAtExpansion ==
    \A th \in Threads :
        /\ threads[th].error # "KeyError"
        /\ AtExpansion(th)
              => LET T == threads[th]
                 IN  \A i \in DOMAIN T.beam :
                        /\ Range(net.parent_names[Head(T.todo)])
                              \subseteq DOMAIN T.beam[i].a
                        /\ DOMAIN T.beam[i].a = DOMAIN T.beam[1].a
                        /\ DOMAIN T.beam[i].a \cap Range(T.todo) = {}

\* C29 witness: a node is about to be expanded one of whose parents is
\* relevant only as the ancestor of an evidence node.
C29_Witness ==
    \E th \in Threads :
        /\ AtExpansion(th)
        /\ Len(threads[th].beam) > 1
        /\ \E parent \in Range(net.parent_names[Head(threads[th].todo)]) :
              /\ parent # threads[th].target
              /\ parent \notin get_all_ancestors(net, threads[th].target)
              /\ parent \notin EvKeys(threads[th].evidence)

====
